---- MODULE Spec2Model ----
(***************************************************************************)
(* A model of terramine-rs' ChunkArray (chunk_array.rs): the dense grid of *)
(* chunks, the three task maps, the save and load handles, the command     *)
(* channel, and the driver's handlers `render` and `update`.               *)
(*                                                                         *)
(* Chunk, Task, the command channel, the spatial iterators and `cfg` are   *)
(* modules of the repository whose files are not among the sources; they   *)
(* are modelled from the specification (section 4.1, 4.3, 4.4, 4.6).       *)
(***************************************************************************)
EXTENDS Integers, Sequences, FiniteSets, TLC

(***************************************************************************)
(* Configuration (`cfg::terrain`) and bounds of the model.                 *)
(***************************************************************************)

\* Chunk::SIZE, the side of a chunk in voxels (a power of two).
SIZE == 2

\* cfg::terrain::MAX_TASKS
MAX_TASKS == 1

\* cfg::terrain::MAX_CHUNKS
MAX_CHUNKS == 2

\* VOXEL_DATA.len(): ids 0 (air) and 1 (stone) are valid.
N_VOXEL_DATA == 2

\* At most this many save tasks run detached from `saving_handle`.
MaxDetached == 1

\* The longest side of an array that the index functions are called with on
\* their own.
MaxSide == 3

\* The coarsest LOD, log2 of the chunk's side, that drop_all_useless_tasks is
\* called with on its own (Chunk::SIZE = 64 gives 6).
MaxLod == 4

AIR == 0

STONE == 1

None == << >>

Some(x) == << x >>

IsSome(o) == Len(o) = 1

Unwrap(o) == o[1]

\* The element of a singleton.  TheOne({ e(v) : v \in { x } }) is e of the
\* value of x, with x evaluated once.
TheOne(S) == CHOOSE y \in S : TRUE

Min(a, b) == IF a <= b THEN a ELSE b

Max(a, b) == IF a >= b THEN a ELSE b

Abs(a) == IF a >= 0 THEN a ELSE -a

\* usize::ilog2
RECURSIVE ilog2(_)
ilog2(n) == IF n <= 1 THEN 0 ELSE 1 + ilog2(n \div 2)

\* Chunk::get_possible_lods(): 0 ..= log2(S)
LODS == 0 .. ilog2(SIZE)

\* Chunk::VOLUME
VOLUME == SIZE * SIZE * SIZE

(***************************************************************************)
(* Int3 / USize3 arithmetic.                                               *)
(***************************************************************************)

Vec3(x, y, z) == << x, y, z >>

VAdd(a, b) == << a[1] + b[1], a[2] + b[2], a[3] + b[3] >>

VSub(a, b) == << a[1] - b[1], a[2] - b[2], a[3] - b[3] >>

VScale(a, k) == << a[1] * k, a[2] * k, a[3] * k >>

\* Componentwise division of a non-negative vector (sizes / 2).
VDiv(a, k) == << a[1] \div k, a[2] \div k, a[3] \div k >>

\* Componentwise floor division (chunk position of a voxel position).
VFloorDiv(a, k) == << a[1] \div k, a[2] \div k, a[3] \div k >>

ZERO3 == << 0, 0, 0 >>

\* SpaceIter::adj_iter: the six face offsets, (+X, -X, +Y, -Y, +Z, -Z).
ADJ_OFFSETS ==
    << << 1, 0, 0 >>, << -1, 0, 0 >>, << 0, 1, 0 >>,
       << 0, -1, 0 >>, << 0, 0, 1 >>, << 0, 0, -1 >> >>

(***************************************************************************)
(* ChunkArray indexing.                                                    *)
(***************************************************************************)

volume(arr_sizes) == arr_sizes[1] * arr_sizes[2] * arr_sizes[3]

coord_idx_to_pos(sizes, coord_idx) == VSub(coord_idx, VDiv(sizes, 2))

\* pos_to_coord_idx with the upper bound of the range included.
pos_to_coord_idx_inclusive(sizes, pos) ==
    LET shifted == VAdd(pos, VDiv(sizes, 2))
    IN  IF /\ 0 <= shifted[1] /\ shifted[1] <= sizes[1]
           /\ 0 <= shifted[2] /\ shifted[2] <= sizes[2]
           /\ 0 <= shifted[3] /\ shifted[3] <= sizes[3]
        THEN Some(shifted)
        ELSE None

pos_to_coord_idx(sizes, pos) ==
    LET shifted == VAdd(pos, VDiv(sizes, 2))
    IN  IF /\ 0 <= shifted[1] /\ shifted[1] < sizes[1]
           /\ 0 <= shifted[2] /\ shifted[2] < sizes[2]
           /\ 0 <= shifted[3] /\ shifted[3] < sizes[3]
        THEN Some(shifted)
        ELSE None

\* sdex::get_index: row-major, the last coordinate fastest.
coord_idx_to_idx(sizes, coord_idx) ==
    (coord_idx[1] * sizes[2] + coord_idx[2]) * sizes[3] + coord_idx[3]

pos_to_idx(sizes, pos) ==
    LET coord_idx == pos_to_coord_idx(sizes, pos)
    IN  IF IsSome(coord_idx)
        THEN Some(coord_idx_to_idx(sizes, Unwrap(coord_idx)))
        ELSE None

\* idx_to_coord_idx with the first coordinate the fastest.
idx_to_coord_idx_x_fastest(idx, sizes) ==
    << idx % sizes[1],
       (idx \div sizes[1]) % sizes[2],
       idx \div (sizes[1] * sizes[2]) >>

\* iterator::idx_to_coord_idx: the inverse of the row-major linearization.
idx_to_coord_idx(idx, sizes) ==
    << idx \div (sizes[2] * sizes[3]),
       (idx % (sizes[2] * sizes[3])) \div sizes[3],
       idx % sizes[3] >>

idx_to_pos(idx, sizes) == coord_idx_to_pos(sizes, idx_to_coord_idx(idx, sizes))

\* The six neighbours' array indices (None outside the array).
get_adj_chunks_idxs(sizes, pos) ==
    [ s \in 1 .. 6 |-> pos_to_idx(sizes, VAdd(pos, ADJ_OFFSETS[s])) ]

\* The in-array neighbours of the chunk at pos, as a set of array indices.
AdjIdxSet(sizes, pos) ==
    { Unwrap(get_adj_chunks_idxs(sizes, pos)[s]) :
        s \in { t \in 1 .. 6 : IsSome(get_adj_chunks_idxs(sizes, pos)[t]) } }

(***************************************************************************)
(* Chunk (spec 4.1).                                                       *)
(***************************************************************************)

AllSame(id) == [ kind |-> "AllSame", id |-> id ]

Default == [ kind |-> "Default", id |-> 0 ]

\* voxel::is_id_valid
is_id_valid(id) == 0 <= id /\ id < N_VOXEL_DATA

\* Chunk::local_pos: the position of the chunk that owns a voxel.
chunk_local_pos(voxel_pos) == VFloorDiv(voxel_pos, SIZE)

\* Chunk::global_pos: the least voxel position of a chunk.
chunk_global_pos(chunk_pos) == VScale(chunk_pos, SIZE)

\* Chunk::global_to_local_pos
global_to_local_pos(chunk_pos, voxel_pos) ==
    VSub(voxel_pos, chunk_global_pos(chunk_pos))

InChunk(local) ==
    /\ 0 <= local[1] /\ local[1] < SIZE
    /\ 0 <= local[2] /\ local[2] < SIZE
    /\ 0 <= local[3] /\ local[3] < SIZE

\* Linear index within a chunk, i = x + S*y + S^2*z (1-based here).
voxel_pos_to_idx(local) == 1 + local[1] + SIZE * local[2] + SIZE * SIZE * local[3]

voxel_idx_to_pos(i) ==
    << (i - 1) % SIZE, ((i - 1) \div SIZE) % SIZE, (i - 1) \div (SIZE * SIZE) >>

\* Chunk::generate_voxels: the height field; stone below height 1, air above.
generate_voxels(chunk_pos) ==
    [ i \in 1 .. VOLUME |->
        IF VAdd(chunk_global_pos(chunk_pos), voxel_idx_to_pos(i))[2] < 1
        THEN STONE ELSE AIR ]

\* Chunk::new_empty: an empty, ungenerated chunk.
Chunk_new_empty(chunk_pos) ==
    [ pos |-> chunk_pos, generated |-> FALSE, fill_type |-> AllSame(AIR),
      voxel_ids |-> << >>, mesh_cache |-> << >>, active_lod |-> None ]

\* Chunk::from_voxels: a generated chunk with an explicit id buffer.
Chunk_from_voxels(voxel_ids, chunk_pos) ==
    [ pos |-> chunk_pos, generated |-> TRUE, fill_type |-> Default,
      voxel_ids |-> voxel_ids, mesh_cache |-> << >>, active_lod |-> None ]

\* Chunk::new_same_filled
Chunk_new_same_filled(chunk_pos, id) ==
    [ pos |-> chunk_pos, generated |-> TRUE, fill_type |-> AllSame(id),
      voxel_ids |-> << >>, mesh_cache |-> << >>, active_lod |-> None ]

(***************************************************************************)
(* HashMap helpers.                                                        *)
(***************************************************************************)

EmptyMap == << >>

MapPut(m, k, v) == [ x \in DOMAIN m \cup { k } |-> IF x = k THEN v ELSE m[x] ]

MapRemove(m, k) == [ x \in DOMAIN m \ { k } |-> m[x] ]

MapRemoveAll(m, ks) == [ x \in DOMAIN m \ ks |-> m[x] ]

(***************************************************************************)
(* Chunk operations (spec 4.1).  A mesh is modelled by one bit, `fresh`:   *)
(* whether the voxels it was built from (the chunk's own and the touching  *)
(* ones of its neighbours) are unchanged since it was built.               *)
(***************************************************************************)

Mesh(fresh) == [ fresh |-> fresh ]

is_generated(chunk) == chunk.generated

\* Chunk::get_id: the id at a local position, whatever the fill type.
get_id(chunk, local) ==
    IF chunk.fill_type.kind = "AllSame"
    THEN chunk.fill_type.id
    ELSE chunk.voxel_ids[voxel_pos_to_idx(local)]

\* AllSame -> Default: materializes the id array.
unoptimize(chunk) ==
    IF chunk.fill_type.kind = "AllSame"
    THEN [ chunk EXCEPT !.fill_type = Default,
                        !.voxel_ids = [ i \in 1 .. VOLUME |-> chunk.fill_type.id ] ]
    ELSE chunk

\* Chunk::drop_all_meshes
Chunk_drop_all_meshes(chunk) ==
    [ chunk EXCEPT !.mesh_cache = EmptyMap, !.active_lod = None ]

\* Chunk::set_voxel: Ok(old_id), or Err(InvalidId | PosIdConversion).
Chunk_set_voxel(chunk, pos, new_id) ==
    LET local == global_to_local_pos(chunk.pos, pos)
    IN  IF ~is_id_valid(new_id)
        THEN [ ok |-> FALSE, err |-> "InvalidId", old_id |-> 0, chunk |-> chunk ]
        ELSE IF ~InChunk(local)
        THEN [ ok |-> FALSE, err |-> "PosIdConversion", old_id |-> 0, chunk |-> chunk ]
        ELSE LET old_id == get_id(chunk, local)
             IN  IF old_id = new_id
                 THEN [ ok |-> TRUE, err |-> "", old_id |-> old_id, chunk |-> chunk ]
                 ELSE [ ok |-> TRUE, err |-> "", old_id |-> old_id,
                        chunk |-> Chunk_drop_all_meshes(
                            [ unoptimize(chunk) EXCEPT
                                !.voxel_ids[voxel_pos_to_idx(local)] = new_id ]) ]

\* The local positions of a chunk inside the box [pos_from, pos_to).
LocalsInBox(chunk_pos, pos_from, pos_to) ==
    { l \in (0 .. SIZE - 1) \X (0 .. SIZE - 1) \X (0 .. SIZE - 1) :
        LET g == VAdd(chunk_global_pos(chunk_pos), l)
        IN  /\ pos_from[1] <= g[1] /\ g[1] < pos_to[1]
            /\ pos_from[2] <= g[2] /\ g[2] < pos_to[2]
            /\ pos_from[3] <= g[3] /\ g[3] < pos_to[3] }

\* Chunk::fill_voxels: Ok(changed) or Err(InvalidId); the box is cut to the chunk.
Chunk_fill_voxels(chunk, pos_from, pos_to, new_id) ==
    LET box     == LocalsInBox(chunk.pos, pos_from, pos_to)
        touched == { l \in box : get_id(chunk, l) # new_id }
    IN  IF ~is_id_valid(new_id)
        THEN [ ok |-> FALSE, err |-> "InvalidId", changed |-> FALSE,
               touched |-> {}, chunk |-> chunk ]
        ELSE IF touched = {}
        THEN [ ok |-> TRUE, err |-> "", changed |-> FALSE,
               touched |-> {}, chunk |-> chunk ]
        ELSE [ ok |-> TRUE, err |-> "", changed |-> TRUE, touched |-> touched,
               chunk |-> Chunk_drop_all_meshes(
                   [ unoptimize(chunk) EXCEPT !.voxel_ids =
                       [ i \in 1 .. VOLUME |->
                           IF voxel_idx_to_pos(i) \in box
                           THEN new_id
                           ELSE unoptimize(chunk).voxel_ids[i] ] ]) ]

\* Chunk::upload_full_detail_vertices / upload_low_detail_vertices
Chunk_upload(chunk, lod, mesh) ==
    [ chunk EXCEPT !.mesh_cache = MapPut(chunk.mesh_cache, lod, mesh) ]

\* Chunk::generate_mesh: builds the vertices on the driver and uploads them.
Chunk_generate_mesh(chunk, lod) == Chunk_upload(chunk, lod, Mesh(TRUE))

Chunk_set_active_lod(chunk, lod) == [ chunk EXCEPT !.active_lod = Some(lod) ]

get_available_lods(chunk) == DOMAIN chunk.mesh_cache

can_render_active_lod(chunk) ==
    IsSome(chunk.active_lod) /\ Unwrap(chunk.active_lod) \in DOMAIN chunk.mesh_cache

\* Chunk::try_set_best_fit_lod: the cached LOD nearest to the target, the
\* lower LOD on a tie; nothing with an empty cache.
Chunk_try_set_best_fit_lod(chunk, target) ==
    LET K == DOMAIN chunk.mesh_cache
    IN  IF K = {}
        THEN chunk
        ELSE LET best == CHOOSE k \in K : \A j \in K :
                            \/ Abs(k - target) < Abs(j - target)
                            \/ Abs(k - target) = Abs(j - target) /\ k <= j
             IN  [ chunk EXCEPT !.active_lod = Some(best) ]

\* iterator::offsets_from_border: the unit offsets toward the neighbouring
\* chunks whose faces a local voxel position touches.
offsets_from_border(local) ==
    { o \in { ADJ_OFFSETS[s] : s \in 1 .. 6 } :
        \E a \in 1 .. 3 :
            \/ o[a] = -1 /\ local[a] = 0
            \/ o[a] = 1 /\ local[a] = SIZE - 1 }

(***************************************************************************)
(* The state of the program.                                               *)
(***************************************************************************)

VARIABLES
    chunks,               \* ChunkArray.chunks, chunks[i + 1] is array index i
    sizes,                \* ChunkArray.sizes
    full_tasks,           \* pos -> FullTask
    low_tasks,            \* <<pos, lod>> -> LowTask
    voxels_gen_tasks,     \* pos -> GenTask
    saving_handle,        \* None, or Some(state of the save task it joins)
    reading_handle,       \* None, or Some(state of the load task it joins)
    detached_saves,       \* save tasks still running whose handle was dropped
    pc,                   \* the driver: "idle", or "render" between the drain and the loop
    panicked,             \* the assertions of the driver that have failed
    blocked,              \* an await of the driver has had to wait for a worker
    call                  \* the last call of a function of ChunkArray made on its own:
                          \* << its name, its arguments, what it returned >>

vars ==
    << chunks, sizes, full_tasks, low_tasks, voxels_gen_tasks, saving_handle,
       reading_handle, detached_saves, pc, panicked, blocked, call >>

(***************************************************************************)
(* ChunkArray: construction and edits.                                     *)
(***************************************************************************)

\* SpaceIter::new(start..end) as a sequence: lexicographic, z fastest.
SpaceIter(start, end) ==
    LET ext == << Max(end[1] - start[1], 0), Max(end[2] - start[2], 0),
                  Max(end[3] - start[3], 0) >>
    IN  [ k \in 1 .. volume(ext) |-> VAdd(start, idx_to_coord_idx(k - 1, ext)) ]

pos_bounds(szs) == << coord_idx_to_pos(szs, ZERO3), coord_idx_to_pos(szs, szs) >>

validate_sizes(szs) == volume(szs) <= MAX_CHUNKS

\* new_empty_chunks with the grid laid out from the origin, not centred on it.
new_empty_chunks_from_origin(szs) ==
    LET poses == SpaceIter(ZERO3, szs)
    IN  [ k \in 1 .. Len(poses) |-> Chunk_new_empty(poses[k]) ]

\* ChunkArray::new_empty_chunks: every chunk of the grid empty and ungenerated.
new_empty_chunks(szs) ==
    LET poses == SpaceIter(pos_bounds(szs)[1], pos_bounds(szs)[2])
    IN  [ k \in 1 .. Len(poses) |-> Chunk_new_empty(poses[k]) ]

\* set_voxel that edits a copy of the owning chunk: the array keeps the old one.
set_voxel_on_copy(chs, szs, pos, new_id) ==
    LET chunk_pos == chunk_local_pos(pos)
        chunk_idx == pos_to_idx(szs, chunk_pos)
    IN  IF ~IsSome(chunk_idx)
        THEN [ ok |-> FALSE, err |-> "PosIdConversion", old_id |-> 0, chunks |-> chs ]
        ELSE TheOne({ [ ok |-> r.ok, err |-> r.err, old_id |-> r.old_id, chunks |-> chs ] :
                      r \in { Chunk_set_voxel(chs[Unwrap(chunk_idx) + 1], pos, new_id) } })

\* ChunkArray::set_voxel: Ok(old_id) or Err; only the owning chunk is touched.
set_voxel(chs, szs, pos, new_id) ==
    LET chunk_pos == chunk_local_pos(pos)
        chunk_idx == pos_to_idx(szs, chunk_pos)
    IN  IF ~IsSome(chunk_idx)
        THEN [ ok |-> FALSE, err |-> "PosIdConversion", old_id |-> 0, chunks |-> chs ]
        ELSE TheOne({ [ ok |-> r.ok, err |-> r.err, old_id |-> r.old_id,
                        chunks |-> [ chs EXCEPT ![Unwrap(chunk_idx) + 1] = r.chunk ] ] :
                      r \in { Chunk_set_voxel(chs[Unwrap(chunk_idx) + 1], pos, new_id) } })

\* ChunkArray::get_voxel: the id at pos, None outside the array.
get_voxel(chs, szs, pos) ==
    LET chunk_pos == chunk_local_pos(pos)
        chunk_idx == pos_to_idx(szs, chunk_pos)
    IN  IF ~IsSome(chunk_idx)
        THEN None
        ELSE Some(get_id(chs[Unwrap(chunk_idx) + 1],
                         global_to_local_pos(chunk_pos, pos)))

\* The loop of ChunkArray::fill_voxels over the chunk positions of the box,
\* from the k-th on; `acc` carries the chunks and is_changed.
RECURSIVE fill_loop(_, _, _, _, _, _, _)
fill_loop(acc, szs, poses, k, pos_from, pos_to, new_id) ==
    IF k > Len(poses)
    THEN acc
    ELSE LET chunk_pos == poses[k]
             idx       == Unwrap(pos_to_idx(szs, chunk_pos))
             min_voxel_pos == chunk_global_pos(chunk_pos)
             end_voxel_pos == VAdd(min_voxel_pos, << SIZE, SIZE, SIZE >>)
             from == << Max(pos_from[1], min_voxel_pos[1]),
                        Max(pos_from[2], min_voxel_pos[2]),
                        Max(pos_from[3], min_voxel_pos[3]) >>
             to   == << Min(pos_to[1], end_voxel_pos[1]),
                        Min(pos_to[2], end_voxel_pos[2]),
                        Min(pos_to[3], end_voxel_pos[3]) >>
             step(r) ==
                 IF ~r.ok
                 THEN [ acc EXCEPT !.ok = FALSE, !.err = r.err ]
                 ELSE IF ~r.changed
                 THEN acc
                 ELSE [ acc EXCEPT
                          !.changed = TRUE,
                          !.chunks = [ i \in 1 .. Len(acc.chunks) |->
                              IF i = idx + 1
                              THEN r.chunk
                              ELSE IF (i - 1) \in AdjIdxSet(szs, chunk_pos)
                              THEN Chunk_drop_all_meshes(acc.chunks[i])
                              ELSE acc.chunks[i] ],
                          !.dirty = acc.dirty \cup { idx } \cup
                              { Unwrap(pos_to_idx(szs, VAdd(chunk_pos, o))) :
                                  o \in { q \in UNION { offsets_from_border(l) :
                                                          l \in r.touched } :
                                            IsSome(pos_to_idx(szs, VAdd(chunk_pos, q))) } } ]
         IN  TheOne({ IF ~next.ok
                      THEN next
                      ELSE fill_loop(next, szs, poses, k + 1, pos_from, pos_to, new_id) :
                      next \in { step(r) : r \in { Chunk_fill_voxels(
                                     acc.chunks[idx + 1], from, to, new_id) } } })

\* fill_voxels that looks at the first corner alone and fills what of the box
\* lies in the array.
fill_voxels_end_unchecked(chs, szs, pos_from, pos_to, new_id) ==
    LET chunk_pos_from == chunk_local_pos(pos_from)
        chunk_pos_to   == chunk_local_pos(
                              VAdd(pos_to, << SIZE - 1, SIZE - 1, SIZE - 1 >>))
        start == [ ok |-> TRUE, err |-> "", changed |-> FALSE, chunks |-> chs,
                   dirty |-> {} ]
    IN  IF ~IsSome(pos_to_idx(szs, chunk_pos_from))
        THEN [ start EXCEPT !.ok = FALSE, !.err = "PosIdConversion" ]
        ELSE fill_loop(start, szs,
                       SelectSeq(SpaceIter(chunk_pos_from, chunk_pos_to),
                                 LAMBDA q : IsSome(pos_to_idx(szs, q))),
                       1, pos_from, pos_to, new_id)

\* ChunkArray::fill_voxels: Ok(is_changed) or Err.  `dirty` (not in the code)
\* names the chunks whose meshes' inputs changed.
fill_voxels(chs, szs, pos_from, pos_to, new_id) ==
    LET chunk_pos_from == chunk_local_pos(pos_from)
        chunk_pos_to   == chunk_local_pos(
                              VAdd(pos_to, << SIZE - 1, SIZE - 1, SIZE - 1 >>))
        start == [ ok |-> TRUE, err |-> "", changed |-> FALSE, chunks |-> chs,
                   dirty |-> {} ]
    IN  IF ~IsSome(pos_to_idx(szs, chunk_pos_from))
        THEN [ start EXCEPT !.ok = FALSE, !.err = "PosIdConversion" ]
        ELSE IF ~IsSome(pos_to_idx(szs, VSub(chunk_pos_to, << 1, 1, 1 >>)))
        THEN [ start EXCEPT !.ok = FALSE, !.err = "PosIdConversion" ]
        ELSE fill_loop(start, szs, SpaceIter(chunk_pos_from, chunk_pos_to), 1,
                       pos_from, pos_to, new_id)

\* ChunkArray::drop_all_meshes
drop_all_meshes(chs) == [ i \in 1 .. Len(chs) |-> Chunk_drop_all_meshes(chs[i]) ]

(***************************************************************************)
(* ChangeTracker and the command channel.                                  *)
(***************************************************************************)

\* idxs_to_reload that gives the owning chunks alone.
idxs_to_reload_owner_only(szs, voxel_poses) ==
    { Unwrap(pos_to_idx(szs, chunk_local_pos(voxel_pos))) :
        voxel_pos \in { p \in voxel_poses :
                          IsSome(pos_to_idx(szs, chunk_local_pos(p))) } }

\* ChangeTracker::idxs_to_reload
idxs_to_reload(szs, voxel_poses) ==
    UNION { LET chunk_pos == chunk_local_pos(voxel_pos)
                local_pos == global_to_local_pos(chunk_pos, voxel_pos)
                chunk_idx == pos_to_idx(szs, chunk_pos)
            IN  IF ~IsSome(chunk_idx)
                THEN {}
                ELSE { Unwrap(chunk_idx) } \cup
                     { Unwrap(pos_to_idx(szs, VAdd(chunk_pos, offset))) :
                         offset \in { o \in offsets_from_border(local_pos) :
                             IsSome(pos_to_idx(szs, VAdd(chunk_pos, o))) } }
          : voxel_pos \in voxel_poses }

\* ChunkArray::reload_chunks_by_indices: a LOD-0 mesh built on the driver for
\* every index of the reload set.
reload_chunks_by_indices(chs, indices) ==
    [ i \in 1 .. Len(chs) |->
        IF (i - 1) \in indices THEN Chunk_generate_mesh(chs[i], 0) ELSE chs[i] ]

SetVoxelCmd(pos, new_id) ==
    [ type |-> "SetVoxel", pos |-> pos, pos_to |-> pos, new_id |-> new_id ]

FillVoxelsCmd(pos_from, pos_to, new_id) ==
    [ type |-> "FillVoxels", pos |-> pos_from, pos_to |-> pos_to, new_id |-> new_id ]

DropAllMeshesCmd ==
    [ type |-> "DropAllMeshes", pos |-> ZERO3, pos_to |-> ZERO3, new_id |-> 0 ]

\* The body of the loop of process_commands for one received command.  `acc`
\* carries the chunks and the change tracker's voxels; `dirty` and `applied`
\* (not in the code) collect the chunks whose meshes' inputs changed and the
\* commands in the order they were run.
run_command(acc, szs, command) ==
    LET on_set(r) ==
            LET old_id == IF r.ok THEN r.old_id ELSE 0
                hit    == r.ok /\ r.old_id # command.new_id
            IN  [ chunks  |-> r.chunks,
                  tracked |-> IF old_id # command.new_id
                              THEN acc.tracked \cup { command.pos }
                              ELSE acc.tracked,
                  dirty   |-> IF hit
                              THEN acc.dirty \cup idxs_to_reload(szs, { command.pos })
                              ELSE acc.dirty,
                  applied |-> Append(acc.applied, command) ]
        on_fill(r) ==
            [ acc EXCEPT !.chunks = r.chunks, !.dirty = acc.dirty \cup r.dirty,
                         !.applied = Append(acc.applied, command) ]
    IN  IF command.type = "SetVoxel"
        THEN TheOne({ on_set(r) : r \in { set_voxel(acc.chunks, szs, command.pos,
                                                    command.new_id) } })
        ELSE IF command.type = "FillVoxels"
        THEN TheOne({ on_fill(r) : r \in { fill_voxels(acc.chunks, szs, command.pos,
                                                      command.pos_to, command.new_id) } })
        ELSE [ acc EXCEPT !.chunks = drop_all_meshes(acc.chunks),
                          !.applied = Append(acc.applied, command) ]

\* `if let` in the place of `while let`: one command is received in a tick.
commands_loop_if_let(acc, szs, cmds, k) ==
    IF k > Len(cmds) THEN acc ELSE run_command(acc, szs, cmds[k])

\* The `while let Ok(command) = try_recv()` loop of process_commands, from the
\* k-th command of the channel on, in the order they were sent.
RECURSIVE commands_loop(_, _, _, _)
commands_loop(acc, szs, cmds, k) ==
    IF k > Len(cmds)
    THEN acc
    ELSE TheOne({ commands_loop(a, szs, cmds, k + 1) :
                  a \in { run_command(acc, szs, cmds[k]) } })

\* A cached mesh of a chunk in `dirty` was built from voxels that have changed.
MarkStaleChunks(chs, dirty) ==
    [ i \in 1 .. Len(chs) |->
        IF (i - 1) \in dirty
        THEN [ chs[i] EXCEPT !.mesh_cache =
                 [ l \in DOMAIN chs[i].mesh_cache |-> Mesh(FALSE) ] ]
        ELSE chs[i] ]

\* So was the result of a finished mesh task of such a chunk.
MarkStaleFull(tasks, szs, dirty) ==
    [ p \in DOMAIN tasks |->
        IF tasks[p].finished /\ Unwrap(pos_to_idx(szs, p)) \in dirty
        THEN [ tasks[p] EXCEPT !.fresh = FALSE ]
        ELSE tasks[p] ]

MarkStaleLow(tasks, szs, dirty) ==
    [ k \in DOMAIN tasks |->
        IF tasks[k].finished /\ Unwrap(pos_to_idx(szs, k[1])) \in dirty
        THEN [ tasks[k] EXCEPT !.fresh = FALSE ]
        ELSE tasks[k] ]

\* ChunkArray::process_commands: drains the channel, applies the commands in
\* order, then rebuilds the LOD-0 mesh of every chunk of the reload set.
\* `applied` and `left` (not in the code) are the commands that were run and
\* those still in the channel when it returns.
process_commands(chs, szs, cmds) ==
    LET reload(done) ==
            LET indices == idxs_to_reload(szs, done.tracked)
            IN  [ chunks    |-> reload_chunks_by_indices(
                                    MarkStaleChunks(done.chunks, done.dirty), indices),
                  dirty     |-> done.dirty,
                  tracked   |-> done.tracked,
                  n_changed |-> Cardinality(indices),
                  applied   |-> done.applied,
                  left      |-> SubSeq(cmds, Len(done.applied) + 1, Len(cmds)) ]
    IN  TheOne({ reload(done) :
                 done \in { commands_loop([ chunks |-> chs, tracked |-> {}, dirty |-> {},
                                            applied |-> << >> ],
                                          szs, cmds, 1) } })

(***************************************************************************)
(* Tasks (spec 4.4).  A task is in its map from the spawn until the driver *)
(* takes its result; `finished` is JoinHandle::is_finished().  A mesh task *)
(* reads the chunks when it runs, so its result is fresh when it finishes. *)
(***************************************************************************)

\* `taken`: the result has been moved out of the task (its handle is None).
GenTask(finished) == [ finished |-> finished, taken |-> FALSE ]

MeshTask(finished, fresh) == [ finished |-> finished, fresh |-> fresh, taken |-> FALSE ]

\* Task::try_take_result gives Some(result) for this task.
is_ready(task) == ~task.taken /\ task.finished

\* `.await` on a handle: the driver waits when the handle has not finished.
await(st, is_finished) == [ st EXCEPT !.blocked = st.blocked \/ ~is_finished ]

\* HashMap::insert: the new map, and whether the key was vacant.
MapInsert(m, k, v) == [ map |-> MapPut(m, k, v), prev_is_none |-> k \notin DOMAIN m ]

\* can_start_tasks that does not count the mesh tasks.
can_start_tasks_uncounted(st) ==
    /\ ~IsSome(st.saving_handle)
    /\ ~IsSome(st.reading_handle)

\* can_start_tasks that looks at the number of mesh tasks alone.
can_start_tasks_during_io(st) ==
    Cardinality(DOMAIN st.low_tasks) + Cardinality(DOMAIN st.full_tasks) <= MAX_TASKS

\* ChunkArray::can_start_tasks
can_start_tasks(st) ==
    /\ ~IsSome(st.saving_handle)
    /\ ~IsSome(st.reading_handle)
    /\ Cardinality(DOMAIN st.low_tasks) + Cardinality(DOMAIN st.full_tasks) <= MAX_TASKS

is_voxels_gen_task_running(tasks, pos) == pos \in DOMAIN tasks

is_mesh_task_running(full, low, pos, lod) ==
    IF lod = 0 THEN pos \in DOMAIN full ELSE << pos, lod >> \in DOMAIN low

\* try_finish_full_tasks that uploads the results and leaves the entries in
\* the map, their results taken.
try_finish_full_tasks_keep_entries(st) ==
    LET done == { p \in DOMAIN st.full_tasks :
                    ~st.full_tasks[p].taken /\ st.full_tasks[p].finished }
    IN  [ st EXCEPT
            !.full_tasks = [ p \in DOMAIN st.full_tasks |->
                IF p \in done
                THEN [ st.full_tasks[p] EXCEPT !.taken = TRUE ]
                ELSE st.full_tasks[p] ],
            !.chunks = [ i \in 1 .. Len(st.chunks) |->
                IF st.chunks[i].pos \in done
                THEN Chunk_upload(st.chunks[i], 0,
                                  Mesh(st.full_tasks[st.chunks[i].pos].fresh))
                ELSE st.chunks[i] ] ]

\* ChunkArray::try_finish_full_tasks: every finished task's mesh is uploaded
\* to its chunk and the task removed.
try_finish_full_tasks(st) ==
    LET done == { p \in DOMAIN st.full_tasks :
                    ~st.full_tasks[p].taken /\ st.full_tasks[p].finished }
    IN  [ await(st, \A p \in done : st.full_tasks[p].finished) EXCEPT
            !.full_tasks = MapRemoveAll(st.full_tasks, done),
            !.chunks = [ i \in 1 .. Len(st.chunks) |->
                IF st.chunks[i].pos \in done
                THEN Chunk_upload(st.chunks[i], 0,
                                  Mesh(st.full_tasks[st.chunks[i].pos].fresh))
                ELSE st.chunks[i] ] ]

RECURSIVE upload_all(_, _, _)
upload_all(chunk, tasks, keys) ==
    IF keys = {}
    THEN chunk
    ELSE LET k == CHOOSE x \in keys : TRUE
         IN  upload_all(Chunk_upload(chunk, k[2], Mesh(tasks[k].fresh)),
                        tasks, keys \ { k })

\* ChunkArray::try_finish_low_tasks
try_finish_low_tasks(st) ==
    LET done == { k \in DOMAIN st.low_tasks :
                    ~st.low_tasks[k].taken /\ st.low_tasks[k].finished }
    IN  [ await(st, \A k \in done : st.low_tasks[k].finished) EXCEPT
            !.low_tasks = MapRemoveAll(st.low_tasks, done),
            !.chunks = [ i \in 1 .. Len(st.chunks) |->
                upload_all(st.chunks[i], st.low_tasks,
                           { k \in done : k[1] = st.chunks[i].pos }) ] ]

\* try_finish_gen_tasks that installs the voxels of every finished task and
\* leaves the tasks in the map.
try_finish_gen_tasks_keep_entries(st) ==
    LET done == { p \in DOMAIN st.voxels_gen_tasks :
                    ~st.voxels_gen_tasks[p].taken /\ st.voxels_gen_tasks[p].finished }
    IN  [ st EXCEPT
            !.chunks = [ i \in 1 .. Len(st.chunks) |->
                IF st.chunks[i].pos \in done
                THEN Chunk_from_voxels(generate_voxels(st.chunks[i].pos),
                                       st.chunks[i].pos)
                ELSE st.chunks[i] ] ]

\* try_finish_gen_tasks without the is_finished filter: every task of the
\* map is awaited.
try_finish_gen_tasks_await_all(st) ==
    LET done == DOMAIN st.voxels_gen_tasks
    IN  [ await(st, \A p \in done : st.voxels_gen_tasks[p].finished) EXCEPT
            !.voxels_gen_tasks = EmptyMap,
            !.chunks = [ i \in 1 .. Len(st.chunks) |->
                IF st.chunks[i].pos \in done
                THEN Chunk_from_voxels(generate_voxels(st.chunks[i].pos),
                                       st.chunks[i].pos)
                ELSE st.chunks[i] ] ]

\* ChunkArray::try_finish_gen_tasks: the chunk of every finished task is
\* replaced by a generated chunk holding the task's voxels.
try_finish_gen_tasks(st) ==
    LET done == { p \in DOMAIN st.voxels_gen_tasks :
                    ~st.voxels_gen_tasks[p].taken /\ st.voxels_gen_tasks[p].finished }
    IN  [ await(st, \A p \in done : st.voxels_gen_tasks[p].finished) EXCEPT
            !.voxels_gen_tasks = MapRemoveAll(st.voxels_gen_tasks, done),
            !.chunks = [ i \in 1 .. Len(st.chunks) |->
                IF st.chunks[i].pos \in done
                THEN Chunk_from_voxels(generate_voxels(st.chunks[i].pos),
                                       st.chunks[i].pos)
                ELSE st.chunks[i] ] ]

try_finish_all_tasks(st) ==
    try_finish_gen_tasks(try_finish_low_tasks(try_finish_full_tasks(st)))

\* ChunkArray::start_task_gen_voxels, with its assertion.
start_task_gen_voxels(st, pos) ==
    LET ins == MapInsert(st.voxels_gen_tasks, pos, GenTask(FALSE))
    IN  [ st EXCEPT
            !.voxels_gen_tasks = ins.map,
            !.panicked = IF ins.prev_is_none
                         THEN st.panicked
                         ELSE st.panicked \cup { "only one gen task" } ]

\* start_task_gen_vertices without the check that its own chunk is generated.
start_task_gen_vertices_any_chunk(st, idx, lod) ==
    LET pos == st.chunks[idx + 1].pos
    IN  IF \E a \in AdjIdxSet(st.sizes, pos) : ~is_generated(st.chunks[a + 1])
        THEN st
        ELSE IF lod = 0
        THEN [ st EXCEPT !.full_tasks = MapPut(st.full_tasks, pos, MeshTask(FALSE, TRUE)) ]
        ELSE [ st EXCEPT !.low_tasks =
                 MapPut(st.low_tasks, << pos, lod >>, MeshTask(FALSE, TRUE)) ]

\* start_task_gen_vertices without the look at the neighbours.
start_task_gen_vertices_any_adj(st, idx, lod) ==
    LET pos == st.chunks[idx + 1].pos
    IN  IF ~is_generated(st.chunks[idx + 1])
        THEN st
        ELSE IF lod = 0
        THEN [ st EXCEPT !.full_tasks = MapPut(st.full_tasks, pos, MeshTask(FALSE, TRUE)) ]
        ELSE [ st EXCEPT !.low_tasks =
                 MapPut(st.low_tasks, << pos, lod >>, MeshTask(FALSE, TRUE)) ]

\* ChunkArray::start_task_gen_vertices, with its assertions.
start_task_gen_vertices(st, idx, lod) ==
    LET chunk == st.chunks[idx + 1]
        pos   == chunk.pos
        is_adj_generated ==
            \A a \in AdjIdxSet(st.sizes, pos) : is_generated(st.chunks[a + 1])
    IN  IF ~is_generated(chunk) \/ ~is_adj_generated
        THEN st
        ELSE IF lod = 0
        THEN IF pos \notin DOMAIN st.full_tasks
             THEN LET ins == MapInsert(st.full_tasks, pos, MeshTask(FALSE, TRUE))
                  IN  [ st EXCEPT
                          !.full_tasks = ins.map,
                          !.panicked = IF ins.prev_is_none
                                       THEN st.panicked
                                       ELSE st.panicked \cup { "only one mesh task" } ]
             ELSE st
        ELSE IF << pos, lod >> \notin DOMAIN st.low_tasks
             THEN LET ins == MapInsert(st.low_tasks, << pos, lod >>, MeshTask(FALSE, TRUE))
                  IN  [ st EXCEPT
                          !.low_tasks = ins.map,
                          !.panicked = IF ins.prev_is_none
                                       THEN st.panicked
                                       ELSE st.panicked \cup { "only one mesh task" } ]
             ELSE st

\* try_finish_voxels_gen_task that takes the finished task out of the map
\* and loses its voxels.
try_finish_voxels_gen_task_lost(st, idx) ==
    LET pos == st.chunks[idx + 1].pos
    IN  IF pos \in DOMAIN st.voxels_gen_tasks /\ st.voxels_gen_tasks[pos].finished
        THEN [ st EXCEPT !.voxels_gen_tasks = MapRemove(st.voxels_gen_tasks, pos) ]
        ELSE st

\* ChunkArray::try_finish_voxels_gen_task
try_finish_voxels_gen_task(st, idx) ==
    LET pos == st.chunks[idx + 1].pos
    IN  IF pos \in DOMAIN st.voxels_gen_tasks /\ is_ready(st.voxels_gen_tasks[pos])
        THEN [ st EXCEPT
                 !.chunks[idx + 1] = Chunk_from_voxels(generate_voxels(pos), pos),
                 !.voxels_gen_tasks = MapRemove(st.voxels_gen_tasks, pos) ]
        ELSE st

\* try_finish_mesh_task that takes the finished task and uploads nothing.
try_finish_mesh_task_no_upload(st, idx, lod) ==
    LET pos == st.chunks[idx + 1].pos
    IN  IF lod = 0
        THEN IF pos \in DOMAIN st.full_tasks /\ st.full_tasks[pos].finished
             THEN [ ok |-> TRUE,
                    st |-> [ st EXCEPT !.full_tasks = MapRemove(st.full_tasks, pos) ] ]
             ELSE [ ok |-> FALSE, st |-> st ]
        ELSE IF << pos, lod >> \in DOMAIN st.low_tasks
                /\ st.low_tasks[<< pos, lod >>].finished
             THEN [ ok |-> TRUE,
                    st |-> [ st EXCEPT !.low_tasks =
                               MapRemove(st.low_tasks, << pos, lod >>) ] ]
             ELSE [ ok |-> FALSE, st |-> st ]

\* ChunkArray::try_finish_mesh_task: Ok (the mesh uploaded, the task removed)
\* or Err(TaskNotReady | TaskNotFound).
try_finish_mesh_task(st, idx, lod) ==
    LET pos == st.chunks[idx + 1].pos
    IN  IF lod = 0
        THEN IF pos \in DOMAIN st.full_tasks /\ is_ready(st.full_tasks[pos])
             THEN [ ok |-> TRUE,
                    st |-> [ st EXCEPT
                        !.chunks[idx + 1] =
                            Chunk_upload(st.chunks[idx + 1], 0,
                                         Mesh(st.full_tasks[pos].fresh)),
                        !.full_tasks = MapRemove(st.full_tasks, pos) ] ]
             ELSE [ ok |-> FALSE, st |-> st ]
        ELSE IF << pos, lod >> \in DOMAIN st.low_tasks
                /\ is_ready(st.low_tasks[<< pos, lod >>])
             THEN [ ok |-> TRUE,
                    st |-> [ st EXCEPT
                        !.chunks[idx + 1] =
                            Chunk_upload(st.chunks[idx + 1], lod,
                                         Mesh(st.low_tasks[<< pos, lod >>].fresh)),
                        !.low_tasks = MapRemove(st.low_tasks, << pos, lod >>) ] ]
             ELSE [ ok |-> FALSE, st |-> st ]

\* drop_all_useless_tasks that also drops the tasks two LODs away.
drop_useless_tasks_from_two(lods, st, useful_lod, cur_pos) ==
    LET useless == { lod \in lods : 2 <= Abs(lod - useful_lod) }
    IN  [ st EXCEPT
            !.full_tasks = IF 0 \in useless
                           THEN MapRemove(st.full_tasks, cur_pos)
                           ELSE st.full_tasks,
            !.low_tasks = MapRemoveAll(st.low_tasks,
                            { << cur_pos, lod >> : lod \in useless \ { 0 } }) ]

\* ChunkArray::drop_task over the loop of ChunkArray::drop_all_useless_tasks,
\* for a chunk whose possible LODs are `lods`: the tasks of cur_pos more than
\* two LODs away from useful_lod are dropped.
drop_useless_tasks(lods, st, useful_lod, cur_pos) ==
    LET useless == { lod \in lods : 2 < Abs(lod - useful_lod) }
    IN  [ st EXCEPT
            !.full_tasks = IF 0 \in useless
                           THEN MapRemove(st.full_tasks, cur_pos)
                           ELSE st.full_tasks,
            !.low_tasks = MapRemoveAll(st.low_tasks,
                            { << cur_pos, lod >> : lod \in useless \ { 0 } }) ]

\* ChunkArray::drop_all_useless_tasks, over Chunk::get_possible_lods().
drop_all_useless_tasks(st, useful_lod, cur_pos) ==
    drop_useless_tasks(LODS, st, useful_lod, cur_pos)

\* drop_tasks that leaves the voxel-gen tasks in their map.
drop_tasks_mesh_only(st) ==
    [ st EXCEPT !.full_tasks = EmptyMap, !.low_tasks = EmptyMap ]

\* ChunkArray::drop_tasks
drop_tasks(st) ==
    [ st EXCEPT !.full_tasks = EmptyMap, !.low_tasks = EmptyMap,
                !.voxels_gen_tasks = EmptyMap ]

(***************************************************************************)
(* The renderer driver.                                                    *)
(***************************************************************************)

\* ChunkArray::default().lod_dist_threashold = 5.8, as numerator and denominator.
THRESHOLD == << 29, 5 >>

SqrLen(v) == v[1] * v[1] + v[2] * v[2] + v[3] * v[3]

\* desired_lod without the upper bound log2(SIZE).
desired_lod_unclamped(cam_pos, threashold, chunk_pos) ==
    LET v    == VSub(VAdd(VScale(chunk_pos, 2 * SIZE), << SIZE, SIZE, SIZE >>),
                     VScale(cam_pos, 2))
        far  == { k \in 0 .. 8 :
                    SqrLen(v) * threashold[2] * threashold[2]
                        >= 4 * SIZE * SIZE * k * k * threashold[1] * threashold[1] }
    IN  CHOOSE k \in far : \A j \in far : j <= k

\* ChunkArray::desired_lod_iter for one chunk:
\* min(floor(dist / threashold), log2(SIZE)), where dist is the distance from
\* the camera to the chunk's centre in chunk sizes.  In integers:
\* floor(dist / t) >= k  iff  |2 S (pos + 1/2) - 2 cam|^2 * den^2 >= 4 S^2 k^2 num^2.
desired_lod(cam_pos, threashold, chunk_pos) ==
    LET v    == VSub(VAdd(VScale(chunk_pos, 2 * SIZE), << SIZE, SIZE, SIZE >>),
                     VScale(cam_pos, 2))
        far  == { k \in LODS :
                    SqrLen(v) * threashold[2] * threashold[2]
                        >= 4 * SIZE * SIZE * k * k * threashold[1] * threashold[1] }
    IN  CHOOSE k \in far : \A j \in far : j <= k

\* The squared distance get_targets_sorted sorts by.
sort_dist(cam_pos, chunk) == SqrLen(VSub(cam_pos, chunk_global_pos(chunk.pos)))

\* ChunkArray::get_targets_sorted: the array indices in ascending distance to
\* the camera; the sort is stable, so equal distances keep the array's order.
get_targets_sorted(chs, cam_pos) ==
    LET before(i, j) ==
            \/ sort_dist(cam_pos, chs[i + 1]) < sort_dist(cam_pos, chs[j + 1])
            \/ sort_dist(cam_pos, chs[i + 1]) = sort_dist(cam_pos, chs[j + 1]) /\ i < j
    IN  [ k \in 1 .. Len(chs) |->
            CHOOSE i \in 0 .. Len(chs) - 1 :
                Cardinality({ j \in 0 .. Len(chs) - 1 : before(j, i) }) = k - 1 ]

\* render_mesh_part that adopts the desired LOD without looking whether its
\* mesh is cached or its task has finished.
render_mesh_part_adopt_unchecked(st, idx, lod) ==
    drop_all_useless_tasks(
        [ st EXCEPT !.chunks[idx + 1] = Chunk_set_active_lod(st.chunks[idx + 1], lod) ],
        lod, st.chunks[idx + 1].pos)

\* The part of the loop's body of `render` after the chunk is known to be
\* generated or to have a voxel-gen task.
render_mesh_part(st, idx, lod) ==
    LET chunk    == st.chunks[idx + 1]
        cached   == lod \in get_available_lods(chunk)
        finish   == IF ~cached /\ is_mesh_task_running(st.full_tasks, st.low_tasks,
                                                       chunk.pos, lod)
                    THEN try_finish_mesh_task(st, idx, lod)
                    ELSE [ ok |-> FALSE, st |-> st ]
        can_set_new_lod == cached \/ finish.ok
        st1 == IF can_set_new_lod
               THEN [ finish.st EXCEPT !.chunks[idx + 1] =
                        Chunk_set_active_lod(finish.st.chunks[idx + 1], lod) ]
               ELSE IF can_start_tasks(finish.st)
               THEN start_task_gen_vertices(finish.st, idx, lod)
               ELSE finish.st
        st2 == drop_all_useless_tasks(st1, lod, chunk.pos)
    IN  IF ~can_render_active_lod(st2.chunks[idx + 1])
        THEN [ st2 EXCEPT !.chunks[idx + 1] =
                 Chunk_try_set_best_fit_lod(st2.chunks[idx + 1], lod) ]
        ELSE st2

\* The body of the loop without the look at is_voxels_gen_task_running.
render_chunk_always_start(st, idx, lod) ==
    IF ~is_generated(st.chunks[idx + 1])
    THEN IF can_start_tasks(st)
         THEN start_task_gen_voxels(st, st.chunks[idx + 1].pos)
         ELSE st
    ELSE render_mesh_part(st, idx, lod)

\* The body of the loop of `render` for the chunk at array index idx.
render_chunk(st, idx, lod) ==
    IF ~is_generated(st.chunks[idx + 1])
    THEN IF is_voxels_gen_task_running(st.voxels_gen_tasks, st.chunks[idx + 1].pos)
         THEN render_mesh_part(try_finish_voxels_gen_task(st, idx), idx, lod)
         ELSE IF can_start_tasks(st)
         THEN start_task_gen_voxels(st, st.chunks[idx + 1].pos)
         ELSE st
    ELSE render_mesh_part(st, idx, lod)

\* The loop of `render` over the sorted targets, from the k-th on.
RECURSIVE render_loop(_, _, _, _)
render_loop(st, order, k, cam_pos) ==
    IF k > Len(order)
    THEN st
    ELSE render_loop(
            render_chunk(st, order[k],
                         desired_lod(cam_pos, THRESHOLD, idx_to_pos(order[k], st.sizes))),
            order, k + 1, cam_pos)

(***************************************************************************)
(* Inputs of the model: what the user, the console and the save file can   *)
(* hand to the program.                                                    *)
(***************************************************************************)

\* The sizes the array is constructed with.
INIT_SIZES == << 2, 1, 1 >>

\* The sizes typed into the control window before "Generate".
RESHAPE_SIZES == { << 2, 1, 1 >>, << 1, 1, 1 >>, << 0, 0, 0 >>, << 3, 1, 1 >> }

\* Camera positions, in voxels: the array's order reversed and LOD 0
\* everywhere (-4), LODs 0 and 1 mixed (12).
CAM_POSITIONS == { << -4, 0, 0 >>, << 12, 0, 0 >> }

\* A voxel of chunk (-1,0,0) on the face it shares with chunk (0,0,0).
POS_A == << -1, 0, 0 >>

\* A voxel position outside every array of the model.
POS_OUT == << 8, 0, 0 >>

\* An id outside the voxel-data table.
BAD_ID == N_VOXEL_DATA

COMMANDS ==
    { SetVoxelCmd(POS_A, AIR), SetVoxelCmd(POS_A, STONE), SetVoxelCmd(POS_A, BAD_ID),
      SetVoxelCmd(POS_OUT, STONE),
      FillVoxelsCmd(<< -1, 0, 0 >>, << 1, 1, 1 >>, STONE),
      FillVoxelsCmd(<< 0, 0, 0 >>, << 9, 1, 1 >>, STONE),
      DropAllMeshesCmd }

\* What the producers send between two ticks: nothing, one command, or two.
BATCHES ==
    { << >> } \cup { << c >> : c \in COMMANDS }
        \cup { << SetVoxelCmd(POS_A, AIR), SetVoxelCmd(POS_A, STONE) >>,
               << SetVoxelCmd(POS_A, BAD_ID),
                  FillVoxelsCmd(<< -1, 0, 0 >>, << 1, 1, 1 >>, STONE) >>,
               << DropAllMeshesCmd, SetVoxelCmd(POS_A, AIR) >> }

\* The voxels a left click can hit.
CLICK_POSITIONS == { POS_A }

\* What a save file can hold: (sizes, [(voxel ids, fill type)]).
LOAD_WORLDS ==
    << [ sizes |-> << 1, 1, 1 >>,
         arr |-> << [ voxel_ids |-> << >>, fill_type |-> AllSame(STONE) ] >> ],
       [ sizes |-> << 2, 1, 1 >>,
         arr |-> << [ voxel_ids |-> generate_voxels(<< -1, 0, 0 >>), fill_type |-> Default ],
                    [ voxel_ids |-> << >>, fill_type |-> AllSame(AIR) ] >> ] >>

(***************************************************************************)
(* The handlers.                                                           *)
(***************************************************************************)

\* The ChunkArray as one record.
Self ==
    [ chunks |-> chunks, sizes |-> sizes, full_tasks |-> full_tasks,
      low_tasks |-> low_tasks, voxels_gen_tasks |-> voxels_gen_tasks,
      saving_handle |-> saving_handle, reading_handle |-> reading_handle,
      panicked |-> panicked, blocked |-> blocked ]

\* Writes a record back: the fields of ChunkArray after a handler.
Becomes(st) ==
    /\ chunks' = st.chunks
    /\ sizes' = st.sizes
    /\ full_tasks' = st.full_tasks
    /\ low_tasks' = st.low_tasks
    /\ voxels_gen_tasks' = st.voxels_gen_tasks
    /\ saving_handle' = st.saving_handle
    /\ reading_handle' = st.reading_handle
    /\ panicked' = st.panicked
    /\ blocked' = st.blocked

Alive == panicked = {}

\* No function has been called on its own.
NoCall == << "none", << >>, << >> >>

Init ==
    /\ sizes = INIT_SIZES
    /\ chunks = new_empty_chunks(INIT_SIZES)
    /\ full_tasks = EmptyMap
    /\ low_tasks = EmptyMap
    /\ voxels_gen_tasks = EmptyMap
    /\ saving_handle = None
    /\ reading_handle = None
    /\ detached_saves = 0
    /\ pc = "idle"
    /\ panicked = {}
    /\ blocked = FALSE
    /\ call = NoCall

\* render, up to the sorted work list: nothing for an array of sizes zero,
\* else the finished tasks are drained.
RenderDrain ==
    /\ Alive /\ pc = "idle"
    /\ IF sizes = ZERO3
       THEN UNCHANGED vars
       ELSE /\ \E st \in { try_finish_all_tasks(Self) } : Becomes(st)
            /\ pc' = "render"
            /\ UNCHANGED << detached_saves, call >>

\* render, the loop over the chunks sorted by their distance to the camera.
RenderLoop(cam_pos) ==
    /\ Alive /\ pc = "render"
    /\ \E st \in { render_loop(Self, get_targets_sorted(chunks, cam_pos), 1, cam_pos) } :
          Becomes(st)
    /\ pc' = "idle"
    /\ UNCHANGED << detached_saves, call >>

\* A worker finishes Chunk::generate_voxels.
GenTaskFinish(pos) ==
    /\ Alive
    /\ pos \in DOMAIN voxels_gen_tasks
    /\ ~voxels_gen_tasks[pos].finished
    /\ voxels_gen_tasks' = [ voxels_gen_tasks EXCEPT ![pos] = GenTask(TRUE) ]
    /\ UNCHANGED << chunks, sizes, full_tasks, low_tasks, saving_handle,
                    reading_handle, detached_saves, pc, panicked, blocked, call >>

\* A worker finishes make_vertices_detailed.
FullTaskFinish(pos) ==
    /\ Alive
    /\ pos \in DOMAIN full_tasks
    /\ ~full_tasks[pos].finished
    /\ full_tasks' = [ full_tasks EXCEPT ![pos] = MeshTask(TRUE, TRUE) ]
    /\ UNCHANGED << chunks, sizes, low_tasks, voxels_gen_tasks, saving_handle,
                    reading_handle, detached_saves, pc, panicked, blocked, call >>

\* A worker finishes make_vertices_low.
LowTaskFinish(key) ==
    /\ Alive
    /\ key \in DOMAIN low_tasks
    /\ ~low_tasks[key].finished
    /\ low_tasks' = [ low_tasks EXCEPT ![key] = MeshTask(TRUE, TRUE) ]
    /\ UNCHANGED << chunks, sizes, full_tasks, voxels_gen_tasks, saving_handle,
                    reading_handle, detached_saves, pc, panicked, blocked, call >>

\* What joining the load task gives, "running" while it has not finished:
\* Ok(world), Err(io::Error) ("io") or Err(JoinError) ("join").
LoadTask(state, world) == [ state |-> state, world |-> world ]

\* The world of a load task that gives none.
NoWorld == [ sizes |-> ZERO3, arr |-> << >> ]

\* ChunkArray::count_voxel_frequencies: id -> the number of voxels with it.
count_voxel_frequencies(voxel_ids) ==
    [ id \in { voxel_ids[i] : i \in DOMAIN voxel_ids } |->
        Cardinality({ i \in DOMAIN voxel_ids : voxel_ids[i] = id }) ]

\* huffman_compress::CodeBuilder::finish over a heap of nodes
\* << weight, greatest symbol, tree >>: the two least nodes are joined until
\* one is left.  A tree is a leaf << id >> or a branch << left, right >>;
\* None with no symbol, a lone leaf with one symbol.
RECURSIVE hc_finish(_)
hc_finish(heap) ==
    IF heap = {}
    THEN None
    ELSE LET least(H) == CHOOSE n \in H : \A m \in H :
                             \/ n[1] < m[1]
                             \/ n[1] = m[1] /\ n[2] <= m[2]
             left == least(heap)
         IN  IF heap = { left }
             THEN Some(left[3])
             ELSE LET right == least(heap \ { left })
                  IN  hc_finish((heap \ { left, right }) \cup
                          { << left[1] + right[1], Max(left[2], right[2]),
                               << left[3], right[3] >> >> })

\* hc::CodeBuilder::from_iter(freqs).finish(), the tree (the book holds the
\* paths of this tree).
hc_tree(freqs) == hc_finish({ << freqs[id], id, << id >> >> : id \in DOMAIN freqs })

\* The Book of a tree: the bits of each symbol, its path from the root
\* (0 to the left, 1 to the right); no bits when the tree is a lone leaf.
RECURSIVE hc_book(_, _)
hc_book(tree, path) ==
    IF Len(tree) = 1
    THEN tree[1] :> path
    ELSE hc_book(tree[1], Append(path, 0)) @@ hc_book(tree[2], Append(path, 1))

\* The loop of Book::encode over the voxel ids, from the k-th on.
RECURSIVE book_encode(_, _, _)
book_encode(book, voxel_ids, k) ==
    IF k > Len(voxel_ids)
    THEN << >>
    ELSE book[voxel_ids[k]] \o book_encode(book, voxel_ids, k + 1)

\* ChunkArray::chunk_as_bytes: the fill type, and for Default the frequency
\* table and the Huffman bits of the VOLUME ids; `panic` when its assertion
\* on the number of voxels fails.
chunk_as_bytes(chunk) ==
    IF chunk.fill_type.kind = "AllSame"
    THEN [ panic |-> FALSE, readable |-> TRUE, fill_type |-> chunk.fill_type,
           freqs |-> << >>, bits |-> << >> ]
    ELSE IF Len(chunk.voxel_ids) # VOLUME
    THEN [ panic |-> TRUE, readable |-> FALSE, fill_type |-> Default,
           freqs |-> << >>, bits |-> << >> ]
    ELSE LET freqs == count_voxel_frequencies(chunk.voxel_ids)
             book  == hc_book(Unwrap(hc_tree(freqs)), << >>)
         IN  [ panic |-> FALSE, readable |-> TRUE, fill_type |-> Default,
               freqs |-> freqs,
               bits |-> book_encode(book, chunk.voxel_ids, 1) ]

\* save_to_file over the chunks of a world: the Sizes section and the
\* pointer array of the chunks' blobs.
FileOf(world) ==
    [ exists |-> TRUE, sizes |-> world.sizes,
      blobs |-> [ i \in DOMAIN world.arr |-> chunk_as_bytes(world.arr[i]) ] ]

\* Tree::unbounded_decoder(bits).collect(): a symbol at every leaf reached,
\* from the root again after it; it ends when the bits end inside the tree.
RECURSIVE unbounded_decoder(_, _, _, _)
unbounded_decoder(root, node, bits, k) ==
    IF Len(node) = 1
    THEN << node[1] >> \o unbounded_decoder(root, root, bits, k)
    ELSE IF k > Len(bits)
    THEN << >>
    ELSE unbounded_decoder(root, node[bits[k] + 1], bits, k + 1)

\* ChunkArray::array_filltype_from_bytes: (voxel ids, fill type), or a panic
\* of one of its `expect`s and assertions; `diverges` when the decoder never
\* ends: over a tree of one symbol it gives that symbol without reading a
\* bit, and collect() grows the vector until the memory is used up.
array_filltype_from_bytes(bytes) ==
    IF ~bytes.readable
    THEN [ panic |-> TRUE, diverges |-> FALSE, voxel_ids |-> << >>, fill_type |-> Default ]
    ELSE IF bytes.fill_type.kind = "Default"
    THEN LET tree == hc_tree(bytes.freqs)
         IN  IF IsSome(tree) /\ Len(Unwrap(tree)) = 1
             THEN [ panic |-> FALSE, diverges |-> TRUE, voxel_ids |-> << >>,
                    fill_type |-> Default ]
             ELSE LET voxel_ids == IF IsSome(tree)
                                   THEN unbounded_decoder(Unwrap(tree), Unwrap(tree),
                                                          bytes.bits, 1)
                                   ELSE << >>
                  IN  [ panic |-> \/ \E i \in DOMAIN voxel_ids : ~is_id_valid(voxel_ids[i])
                                  \/ Len(voxel_ids) # VOLUME,
                        diverges |-> FALSE,
                        voxel_ids |-> voxel_ids, fill_type |-> Default ]
    ELSE [ panic |-> FALSE, diverges |-> FALSE, voxel_ids |-> << >>,
           fill_type |-> bytes.fill_type ]

\* ChunkArray::read_from_file in its task: an io::Error when the file cannot
\* be opened, a panic of the task (a JoinError for the driver) when a blob
\* cannot be decoded, a task that does not finish when the decoder of a blob
\* does not end, (sizes, chunks) else.
read_from_file(file) ==
    IF ~file.exists
    THEN LoadTask("io", NoWorld)
    ELSE LET chunk_arr == [ i \in DOMAIN file.blobs |->
                              array_filltype_from_bytes(file.blobs[i]) ]
             stops == { i \in DOMAIN chunk_arr : chunk_arr[i].panic \/ chunk_arr[i].diverges }
         IN  IF stops # {}
             THEN IF chunk_arr[CHOOSE i \in stops : \A j \in stops : i <= j].panic
                  THEN LoadTask("join", NoWorld)
                  ELSE LoadTask("running", NoWorld)
             ELSE LoadTask("ok",
                      [ sizes |-> file.sizes,
                        arr |-> [ i \in DOMAIN chunk_arr |->
                                    [ voxel_ids |-> chunk_arr[i].voxel_ids,
                                      fill_type |-> chunk_arr[i].fill_type ] ] ])

\* apply_new without its call of drop_tasks.
apply_new_keep_tasks(st, szs, chunk_arr) ==
    [ st EXCEPT
        !.sizes = szs,
        !.chunks = [ i \in 1 .. Len(chunk_arr) |->
            IF chunk_arr[i].fill_type.kind = "Default"
            THEN Chunk_from_voxels(chunk_arr[i].voxel_ids, idx_to_pos(i - 1, szs))
            ELSE Chunk_new_same_filled(idx_to_pos(i - 1, szs),
                                       chunk_arr[i].fill_type.id) ] ]

\* ChunkArray::apply_new: the tasks dropped, the array replaced by the loaded one.
apply_new(st, szs, chunk_arr) ==
    IF volume(szs) # Len(chunk_arr)
    THEN [ st EXCEPT !.panicked = st.panicked \cup { "chunk array len" } ]
    ELSE [ drop_tasks(st) EXCEPT
             !.sizes = szs,
             !.chunks = [ i \in 1 .. Len(chunk_arr) |->
                 IF chunk_arr[i].fill_type.kind = "Default"
                 THEN Chunk_from_voxels(chunk_arr[i].voxel_ids, idx_to_pos(i - 1, szs))
                 ELSE Chunk_new_same_filled(idx_to_pos(i - 1, szs),
                                            chunk_arr[i].fill_type.id) ] ]

\* ChunkArray::update after proccess_camera_input: `cmds` is the channel's
\* content, press_s and press_o the Ctrl+S and Ctrl+O edges of this tick,
\* `load` what the load task has come to when the handler asks is_finished.
\* Gives the array and the handler's result.
update_after_commands(st, pr, press_s, press_o, load) ==
    LET st1 == [ st EXCEPT
                   !.chunks = pr.chunks,
                   !.full_tasks = MarkStaleFull(st.full_tasks, st.sizes, pr.dirty),
                   !.low_tasks = MarkStaleLow(st.low_tasks, st.sizes, pr.dirty) ]
        st2 == IF press_s
               THEN [ st1 EXCEPT !.saving_handle = Some("running") ]
               ELSE st1
        save_finished == IsSome(st2.saving_handle)
                            /\ Unwrap(st2.saving_handle) # "running"
        st3 == IF save_finished
               THEN [ await(st2, Unwrap(st2.saving_handle) # "running") EXCEPT
                        !.saving_handle = None ]
               ELSE st2
    IN  IF save_finished /\ Unwrap(st2.saving_handle) = "join"
        THEN [ st |-> st3, result |-> "Join" ]
        ELSE IF save_finished /\ Unwrap(st2.saving_handle) = "io"
        THEN [ st |-> st3, result |-> "Save" ]
        ELSE LET st4 == IF press_o
                        THEN [ st3 EXCEPT !.reading_handle = Some("running") ]
                        ELSE st3
                 load_finished == IsSome(st4.reading_handle) /\ load.state # "running"
                 st5 == [ await(st4, load.state # "running") EXCEPT
                            !.reading_handle = None ]
             IN  IF ~load_finished
                 THEN [ st |-> st4, result |-> "Ok" ]
                 ELSE IF load.state = "join"
                 THEN [ st |-> st5, result |-> "Join" ]
                 ELSE IF load.state = "io"
                 THEN [ st |-> st5, result |-> "Save" ]
                 ELSE [ st |-> apply_new(st5, load.world.sizes, load.world.arr),
                        result |-> "Ok" ]

update(st, cmds, press_s, press_o, load) ==
    TheOne({ update_after_commands(st, pr, press_s, press_o, load) :
             pr \in { process_commands(st.chunks, st.sizes, cmds) } })

\* The voxels a click can pick: the solid ones.
Clickable ==
    { p \in CLICK_POSITIONS :
        IsSome(get_voxel(chunks, sizes, p)) /\ Unwrap(get_voxel(chunks, sizes, p)) # AIR }

\* One tick of ChunkArray::update.  `batch` is what the producers have sent
\* into COMMAND_CHANNEL since the last tick, `click` is None or the first
\* solid voxel on the camera's ray when the left button was just pressed
\* (proccess_camera_input then sends SetVoxel{pos, AIR} behind the batch).
\* A load task spawned in this tick has not finished when the handler asks.
Update(batch, click, press_s, press_o, load) ==
    /\ Alive /\ pc = "idle"
    /\ IsSome(click) => Unwrap(click) \in Clickable
    /\ load.state # "running" => IsSome(reading_handle) /\ ~press_o
    /\ LET cmds == IF IsSome(click)
                   THEN Append(batch, SetVoxelCmd(Unwrap(click), AIR))
                   ELSE batch
           dropped == IF press_s /\ saving_handle = Some("running") THEN 1 ELSE 0
       IN  /\ detached_saves + dropped <= MaxDetached
           /\ \E r \in { update(Self, cmds, press_s, press_o, load) } : Becomes(r.st)
           /\ detached_saves' = detached_saves + dropped
    /\ UNCHANGED << pc, call >>

\* The save task that saving_handle joins finishes: with an error from the
\* file system, with a panic of its assertion that every chunk is generated,
\* or well.
SaveFinish(outcome) ==
    /\ Alive /\ pc = "idle"
    /\ saving_handle = Some("running")
    /\ IF \A i \in 1 .. Len(chunks) : is_generated(chunks[i])
       THEN outcome \in { "ok", "io" }
       ELSE outcome = "join"
    /\ saving_handle' = Some(outcome)
    /\ UNCHANGED << chunks, sizes, full_tasks, low_tasks, voxels_gen_tasks,
                    reading_handle, detached_saves, pc, panicked, blocked, call >>

\* A save task whose handle was dropped finishes.
DetachedSaveFinish ==
    /\ Alive /\ pc = "idle"
    /\ detached_saves > 0
    /\ detached_saves' = detached_saves - 1
    /\ UNCHANGED << chunks, sizes, full_tasks, low_tasks, voxels_gen_tasks,
                    saving_handle, reading_handle, pc, panicked, blocked, call >>

\* Save files that do not decode, made of the file of the second world: the
\* first blob truncated, an id outside the voxel table in it, one voxel less.
DAMAGED_FILES ==
    LET file == FileOf(LOAD_WORLDS[2])
        ids  == LOAD_WORLDS[2].arr[1].voxel_ids
    IN  { [ file EXCEPT !.blobs[1].readable = FALSE ],
          [ file EXCEPT !.blobs[1] =
              chunk_as_bytes([ fill_type |-> Default,
                               voxel_ids |-> [ ids EXCEPT ![1] = BAD_ID ] ]) ],
          [ file EXCEPT !.blobs[1].bits =
              SubSeq(file.blobs[1].bits, 1, Len(file.blobs[1].bits) - 1) ] }

\* What "world/world" can hold when Ctrl+O is pressed: no file, the file of
\* a saved world, a damaged file, a file with less chunks than its sizes say,
\* the file of a world whose one chunk holds VOLUME voxels of stone.
SAVE_FILES ==
    { [ exists |-> FALSE, sizes |-> ZERO3, blobs |-> << >> ] }
        \cup { FileOf(LOAD_WORLDS[w]) : w \in 1 .. Len(LOAD_WORLDS) }
        \cup DAMAGED_FILES
        \cup { [ FileOf(LOAD_WORLDS[1]) EXCEPT !.sizes = << 2, 1, 1 >> ] }
        \cup { FileOf([ sizes |-> << 1, 1, 1 >>,
                        arr |-> << [ voxel_ids |-> [ i \in 1 .. VOLUME |-> STONE ],
                                     fill_type |-> Default ] >> ]) }

\* What the load task can come to.
LOAD_OUTCOMES == { read_from_file(file) : file \in SAVE_FILES }

Tick(batch, click, press_s, press_o, load) ==
    [ batch |-> batch, click |-> click, press_s |-> press_s, press_o |-> press_o,
      load |-> load ]

\* The ticks of the model: commands alone, a click alone, the key
\* combinations alone, the load task found finished, and one tick where a
\* command, Ctrl+S and a finished load meet.
TICKS ==
    { Tick(b, None, FALSE, FALSE, LoadTask("running", NoWorld)) : b \in BATCHES }
        \cup { Tick(<< >>, Some(p), FALSE, FALSE, LoadTask("running", NoWorld)) :
                    p \in CLICK_POSITIONS }
        \cup { Tick(<< >>, None, t[1], t[2], LoadTask("running", NoWorld)) :
                    t \in BOOLEAN \X BOOLEAN }
        \cup { Tick(<< >>, None, FALSE, FALSE, l) : l \in LOAD_OUTCOMES }
        \cup { Tick(<< SetVoxelCmd(POS_A, AIR) >>, None, TRUE, FALSE, LoadTask("ok", LOAD_WORLDS[1])) }

\* spawn_control_window, the "Generate" button: the tasks are dropped and the
\* array is replaced by ChunkArray::new_empty_chunks(sizes), which panics on
\* sizes that are not valid.
Generate(szs) ==
    /\ Alive /\ pc = "idle"
    /\ LET dropped == IF saving_handle = Some("running") THEN 1 ELSE 0
       IN  IF validate_sizes(szs)
           THEN /\ detached_saves + dropped <= MaxDetached
                /\ detached_saves' = detached_saves + dropped
                /\ Becomes([ chunks |-> new_empty_chunks(szs), sizes |-> szs,
                             full_tasks |-> EmptyMap, low_tasks |-> EmptyMap,
                             voxels_gen_tasks |-> EmptyMap, saving_handle |-> None,
                             reading_handle |-> None, panicked |-> panicked,
                             blocked |-> blocked ])
           ELSE /\ Becomes([ drop_tasks(Self) EXCEPT
                               !.panicked = panicked \cup { "too many chunks" } ])
                /\ UNCHANGED detached_saves
    /\ UNCHANGED << pc, call >>

Next ==
    \/ RenderDrain
    \/ \E cam_pos \in CAM_POSITIONS : RenderLoop(cam_pos)
    \/ \E pos \in DOMAIN voxels_gen_tasks : GenTaskFinish(pos)
    \/ \E pos \in DOMAIN full_tasks : FullTaskFinish(pos)
    \/ \E key \in DOMAIN low_tasks : LowTaskFinish(key)
    \/ \E t \in TICKS : Update(t.batch, t.click, t.press_s, t.press_o, t.load)
    \/ \E outcome \in { "ok", "io", "join" } : SaveFinish(outcome)
    \/ DetachedSaveFinish
    \/ \E szs \in RESHAPE_SIZES : Generate(szs)

Spec == Init /\ [][Next]_vars

\* The program without the control window's Generate: the array is reshaped
\* by nothing but a load.
NextNoGenerate ==
    \/ RenderDrain
    \/ \E cam_pos \in CAM_POSITIONS : RenderLoop(cam_pos)
    \/ \E pos \in DOMAIN voxels_gen_tasks : GenTaskFinish(pos)
    \/ \E pos \in DOMAIN full_tasks : FullTaskFinish(pos)
    \/ \E key \in DOMAIN low_tasks : LowTaskFinish(key)
    \/ \E t \in TICKS : Update(t.batch, t.click, t.press_s, t.press_o, t.load)
    \/ \E outcome \in { "ok", "io", "join" } : SaveFinish(outcome)
    \/ DetachedSaveFinish

\* The program while no frame is drawn: update, the save task and the
\* control window alone.
NextNoRender ==
    \/ \E t \in TICKS : Update(t.batch, t.click, t.press_s, t.press_o, t.load)
    \/ \E outcome \in { "ok", "io", "join" } : SaveFinish(outcome)
    \/ DetachedSaveFinish
    \/ \E szs \in RESHAPE_SIZES : Generate(szs)

SpecNoRender == Init /\ [][NextNoRender]_vars

\* A function of ChunkArray is called on its own and `call` keeps what it
\* was given and what it gave; the array is left alone.
Called(c) ==
    /\ call' = c
    /\ UNCHANGED << chunks, sizes, full_tasks, low_tasks, voxels_gen_tasks,
                    saving_handle, reading_handle, detached_saves, pc, panicked,
                    blocked >>

\* The array sizes the index functions are called with: every (W,H,D) with
\* sides up to MaxSide, the odd ones and those with a zero side among them.
CALL_SIZES == (0 .. MaxSide) \X (0 .. MaxSide) \X (0 .. MaxSide)

\* ChunkArray::pos_to_coord_idx(sizes, pos), for chunk positions in and
\* around the array.
CallPosToCoordIdx ==
    /\ call = NoCall
    /\ \E szs \in CALL_SIZES :
        \E pos \in (-MaxSide .. MaxSide) \X (-MaxSide .. MaxSide) \X (-MaxSide .. MaxSide) :
          Called(<< "pos_to_coord_idx", << szs, pos >>, << pos_to_coord_idx(szs, pos) >> >>)

\* ChunkArray::coord_idx_to_pos(sizes, coord_idx), and pos_to_coord_idx of
\* the position it gave.
CallCoordIdxToPos ==
    /\ call = NoCall
    /\ \E szs \in CALL_SIZES : \E coord_idx \in CALL_SIZES :
        \E pos \in { coord_idx_to_pos(szs, coord_idx) } :
          Called(<< "coord_idx_to_pos", << szs, coord_idx >>,
                    << pos, pos_to_coord_idx(szs, pos) >> >>)

\* ChunkArray::idx_to_coord_idx(idx, sizes) for an index of the array, then
\* coord_idx_to_idx of what it gave, the item of SpaceIter::new(0..sizes) at
\* that index, and idx_to_coord_idx of the next index of the array, if any.
CallIdxToCoordIdx ==
    /\ call = NoCall
    /\ \E szs \in CALL_SIZES : \E idx \in 0 .. volume(szs) - 1 :
        \E coord_idx \in { idx_to_coord_idx(idx, szs) } :
          Called(<< "idx_to_coord_idx", << idx, szs >>,
                    << coord_idx, coord_idx_to_idx(szs, coord_idx),
                       SpaceIter(ZERO3, szs)[idx + 1],
                       IF idx + 1 < volume(szs)
                       THEN Some(idx_to_coord_idx(idx + 1, szs)) ELSE None >> >>)

\* ChunkArray::chunk_as_bytes(chunk) for a generated chunk, AllSame or with
\* VOLUME valid ids, and array_filltype_from_bytes of the bytes it gave.
CallChunkAsBytes ==
    /\ call = NoCall
    /\ \E chunk \in { Chunk_new_same_filled(ZERO3, id) : id \in 0 .. N_VOXEL_DATA - 1 }
                   \cup { Chunk_from_voxels(voxel_ids, ZERO3) :
                            voxel_ids \in [ 1 .. VOLUME -> 0 .. N_VOXEL_DATA - 1 ] } :
        \E bytes \in { chunk_as_bytes(chunk) } :
          Called(<< "chunk_as_bytes", << chunk >>,
                    << bytes, array_filltype_from_bytes(bytes) >> >>)

\* The item of ChunkArray::desired_lod_iter for one chunk, for two camera
\* positions (in voxels) and a threshold of the slider's range, 0.01 to 20.
CallDesiredLod ==
    /\ call = NoCall
    /\ LET cams == ({ -47, -23, -12, -6, -3, -1, 0, 1, 2, 3, 6, 12, 24, 48 }
                        \X { 0, 7 } \X { 0 }) \cup { << -23, 1, 1 >> }
       IN
        \E cam_pos \in cams \X cams :
        \E threashold \in { << 1, 100 >>, << 1, 2 >>, THRESHOLD, << 20, 1 >> } :
        \E chunk_pos \in { << -1, 0, 0 >>, ZERO3 } :
          Called(<< "desired_lod", << cam_pos[1], cam_pos[2], threashold, chunk_pos >>,
                    << desired_lod(cam_pos[1], threashold, chunk_pos),
                       desired_lod(cam_pos[2], threashold, chunk_pos) >> >>)

\* The argument of loading.refresh in save_to_file and read_from_file,
\* `i as f32 / (volume - 1) as f32` for i < volume: the quotient
\* << "number", i, volume - 1 >>, and NaN for 0.0 / 0.0.
progress(i, vol) ==
    IF vol - 1 # 0
    THEN << "number", i, vol - 1 >>
    ELSE IF i = 0 THEN << "NaN", 0, 0 >> ELSE << "inf", i, 0 >>

\* save_to_file (read_from_file) of an array of the given sizes reaches the
\* chunk at index i and reports its progress.
CallRefresh ==
    /\ call = NoCall
    /\ \E szs \in CALL_SIZES : \E i \in 0 .. volume(szs) - 1 :
          Called(<< "refresh", << i, szs >>, << progress(i, volume(szs)) >> >>)

\* The functions of ChunkArray that read no array, each called on its own,
\* one call in a run.
\* drop_all_useless_tasks over every set of mesh tasks of two positions.
CallDropAllUselessTasks ==
    /\ call = NoCall
    /\ LET lods == 0 .. MaxLod
           keys == { ZERO3, POS_A } \X lods
       IN  \E running \in SUBSET keys, useful_lod \in lods :
               LET st == [ Self EXCEPT
                             !.full_tasks = [ p \in { k[1] : k \in { r \in running : r[2] = 0 } }
                                                |-> MeshTask(FALSE, TRUE) ],
                             !.low_tasks = [ k \in { r \in running : r[2] # 0 }
                                                |-> MeshTask(FALSE, TRUE) ] ]
                   after == drop_useless_tasks(lods, st, useful_lod, ZERO3)
               IN  Called(<< "drop_all_useless_tasks",
                             << running, useful_lod, ZERO3 >>,
                             << { << p, 0 >> : p \in DOMAIN after.full_tasks }
                                   \cup DOMAIN after.low_tasks,
                                after = [ st EXCEPT !.full_tasks = after.full_tasks,
                                                    !.low_tasks = after.low_tasks ]
                                  /\ \A p \in DOMAIN after.full_tasks :
                                         after.full_tasks[p] = st.full_tasks[p]
                                  /\ \A k \in DOMAIN after.low_tasks :
                                         after.low_tasks[k] = st.low_tasks[k] >> >>)

\* The body of render's loop for a generated chunk with the meshes of `cached`
\* in its cache and `active_lod` among them or None, whose desired LOD is not
\* cached and has no finished task.
CallRenderChunk ==
    /\ call = NoCall
    /\ LET lods == 0 .. MaxLod
       IN  \E cached \in SUBSET lods, lod \in lods, has_task \in BOOLEAN :
           \E active_lod \in { None } \cup { Some(k) : k \in cached } :
               /\ lod \notin cached
               /\ LET chunk == [ Chunk_from_voxels(generate_voxels(ZERO3), ZERO3) EXCEPT
                                  !.mesh_cache = [ k \in cached |-> Mesh(TRUE) ],
                                  !.active_lod = active_lod ]
                      st0   == [ Self EXCEPT
                                  !.sizes = << 1, 1, 1 >>,
                                  !.chunks = << chunk >> ]
                      st    == IF ~has_task
                               THEN st0
                               ELSE IF lod = 0
                               THEN [ st0 EXCEPT !.full_tasks =
                                        MapPut(EmptyMap, ZERO3, MeshTask(FALSE, TRUE)) ]
                               ELSE [ st0 EXCEPT !.low_tasks =
                                        MapPut(EmptyMap, << ZERO3, lod >>,
                                               MeshTask(FALSE, TRUE)) ]
                      after == render_chunk(st, 0, lod)
                  IN  Called(<< "render_chunk",
                                << cached, active_lod, lod, has_task >>,
                                << after.chunks[1].active_lod,
                                   DOMAIN after.chunks[1].mesh_cache >> >>)

\* fill_voxels over the boxes [pos_from, pos_to) of a generated (2,1,1) array,
\* pos_from a voxel of the array and pos_from <= pos_to, the empty boxes
\* included; the chunks hold a mesh.
CallFillVoxels ==
    /\ call = NoCall
    /\ LET szs == << 2, 1, 1 >>
           lo  == chunk_global_pos(pos_bounds(szs)[1])
           hi  == chunk_global_pos(pos_bounds(szs)[2])
           corners == (lo[1] .. hi[1]) \X (lo[2] .. hi[2]) \X (lo[3] .. hi[3])
           voxels  == { c \in corners : IsSome(pos_to_idx(szs, chunk_local_pos(c))) }
           meshed(chunk) == Chunk_set_active_lod(Chunk_generate_mesh(chunk, 0), 0)
           arrays ==
               { [ k \in 1 .. 2 |->
                     meshed(Chunk_from_voxels(generate_voxels(idx_to_pos(k - 1, szs)),
                                              idx_to_pos(k - 1, szs))) ],
                 [ k \in 1 .. 2 |->
                     meshed(Chunk_new_same_filled(idx_to_pos(k - 1, szs), STONE)) ] }
       IN  \E chs \in arrays, pos_from \in voxels, new_id \in { AIR, STONE } :
           \E pos_to \in { c \in corners : \A a \in 1 .. 3 : pos_from[a] <= c[a] } :
               \E r \in { fill_voxels(chs, szs, pos_from, pos_to, new_id) } :
                   Called(<< "fill_voxels",
                             << chs, szs, pos_from, pos_to, new_id >>,
                             << r.ok, r.err, r.changed, r.chunks >> >>)

NextCalls ==
    \/ CallPosToCoordIdx
    \/ CallCoordIdxToPos
    \/ CallIdxToCoordIdx
    \/ CallChunkAsBytes
    \/ CallDesiredLod
    \/ CallRefresh
    \/ CallDropAllUselessTasks
    \/ CallRenderChunk
    \/ CallFillVoxels

SpecCalls == Init /\ [][NextCalls]_vars

(***************************************************************************)
(* Frames over a loaded world: `render` and the workers alone, on the      *)
(* array that `update` installs from a save file of four chunks of stone.  *)
(***************************************************************************)

\* The array after apply_new of the world read from the file.
InitFrames ==
    LET world == [ sizes |-> << 4, 1, 1 >>,
                   arr |-> [ i \in 1 .. 4 |->
                               [ voxel_ids |-> << >>, fill_type |-> AllSame(STONE) ] ] ]
        load  == read_from_file(FileOf(world))
        st0   == [ chunks |-> new_empty_chunks(INIT_SIZES), sizes |-> INIT_SIZES,
                   full_tasks |-> EmptyMap, low_tasks |-> EmptyMap,
                   voxels_gen_tasks |-> EmptyMap, saving_handle |-> None,
                   reading_handle |-> None, panicked |-> {}, blocked |-> FALSE ]
    IN  /\ \E st \in { apply_new(st0, load.world.sizes, load.world.arr) } :
               /\ chunks = st.chunks
               /\ sizes = st.sizes
               /\ full_tasks = st.full_tasks
               /\ low_tasks = st.low_tasks
               /\ voxels_gen_tasks = st.voxels_gen_tasks
               /\ saving_handle = st.saving_handle
               /\ reading_handle = st.reading_handle
               /\ panicked = st.panicked
               /\ blocked = st.blocked
        /\ detached_saves = 0
        /\ pc = "idle"
        /\ call = NoCall

\* Camera positions of the frames: those of CAM_POSITIONS and one from where
\* the farthest of the four chunks alone has LOD 1.
FRAME_CAMS == CAM_POSITIONS \cup { << -9, 0, 0 >> }

NextFrames ==
    \/ RenderDrain
    \/ \E cam_pos \in FRAME_CAMS : RenderLoop(cam_pos)
    \/ \E pos \in DOMAIN full_tasks : FullTaskFinish(pos)
    \/ \E key \in DOMAIN low_tasks : LowTaskFinish(key)

SpecFrames == InitFrames /\ [][NextFrames]_vars

(***************************************************************************)
(* Edits between frames: `update` with one SetVoxel command, `render` and  *)
(* the workers; `call` keeps the last edit and what set_voxel returned.    *)
(***************************************************************************)

\* update finds SetVoxel { pos, new_id } in the channel; no key is pressed.
EditSetVoxel(pos, new_id) ==
    /\ Alive /\ pc = "idle"
    /\ \E r \in { update(Self, << SetVoxelCmd(pos, new_id) >>, FALSE, FALSE,
                          LoadTask("running", NoWorld)) } : Becomes(r.st)
    /\ call' = << "set_voxel", << pos, new_id >>,
                 << set_voxel(chunks, sizes, pos, new_id).ok >> >>
    /\ UNCHANGED << detached_saves, pc >>

NextEdits ==
    \/ RenderDrain
    \/ \E cam_pos \in CAM_POSITIONS : RenderLoop(cam_pos)
    \/ \E pos \in DOMAIN voxels_gen_tasks : GenTaskFinish(pos)
    \/ \E pos \in DOMAIN full_tasks : FullTaskFinish(pos)
    \/ \E key \in DOMAIN low_tasks : LowTaskFinish(key)
    \/ \E pos \in { POS_A, << -1, 1, 0 >>, POS_OUT }, new_id \in { AIR, STONE } :
          EditSetVoxel(pos, new_id)

SpecEdits == Init /\ [][NextEdits]_vars

\* No save and no load is held by the array.
NoSaveLoad == saving_handle = None /\ reading_handle = None

\* The scheduling: the runtime runs every spawned task to its end, a render
\* call that has begun returns, and the frame loop calls render again and
\* again in frames where no save and no load is held (no save or load
\* stays in flight forever).
SpecFair ==
    /\ Init
    /\ [][NextNoGenerate]_vars
    /\ WF_vars(\E pos \in DOMAIN voxels_gen_tasks : GenTaskFinish(pos))
    /\ WF_vars(\E pos \in DOMAIN full_tasks : FullTaskFinish(pos))
    /\ WF_vars(\E key \in DOMAIN low_tasks : LowTaskFinish(key))
    /\ []<>(pc = "idle")
    /\ []<>(pc = "render" /\ NoSaveLoad)

(***************************************************************************)
(* The claims.                                                             *)
(***************************************************************************)

\* The mesh and voxel-gen tasks the driver holds.
InFlightTasks ==
    Cardinality(DOMAIN voxels_gen_tasks) + Cardinality(DOMAIN full_tasks)
        + Cardinality(DOMAIN low_tasks)

\* C1: in every reachable state the number of in-flight tasks,
\* |voxels_gen_tasks| + |full_tasks| + |low_tasks|, is at most MAX_TASKS.
C1_TasksWithinCap == InFlightTasks <= MAX_TASKS

\* The save tasks that are running: the one saving_handle joins and those
\* whose handle was dropped.
RunningSaves ==
    detached_saves + (IF saving_handle = Some("running") THEN 1 ELSE 0)

\* C3: the save is at most one in flight: a Ctrl+S while a spawned save task
\* has not completed is skipped, so two save tasks never run at the same
\* time and saving_handle refers to the only running save.
C3_OneSaveInFlight == RunningSaves <= 1

\* C6: the array is never replaced by new_empty_chunks (the control window's
\* Generate) while a save task that holds views of its chunks is running:
\* no step from a state with a running save drops the handles and leaves
\* an array of empty, ungenerated chunks in place of the old one.
C6_NoReshapeDuringSave ==
    [][ RunningSaves > 0 =>
          ~ ( /\ chunks' # chunks
              /\ chunks' = new_empty_chunks(sizes')
              /\ saving_handle' = None
              /\ detached_saves' >= RunningSaves ) ]_vars

\* The mesh task of chunk position pos and LOD lod, or None.
MeshTaskOf(full, low, pos, lod) ==
    IF lod = 0
    THEN IF pos \in DOMAIN full THEN Some(full[pos]) ELSE None
    ELSE IF << pos, lod >> \in DOMAIN low THEN Some(low[<< pos, lod >>]) ELSE None

\* C4: when an edit lands on a chunk while a mesh task of that chunk is in
\* flight, the task's result is dropped: no step takes a result computed
\* from the voxels before the edit out of a task map and leaves it in the
\* chunk's mesh_cache.
C4_StaleResultDropped ==
    [][ \A i \in 1 .. Len(chunks) : \A lod \in LODS :
          LET task == MeshTaskOf(full_tasks, low_tasks, chunks[i].pos, lod)
          IN  ( /\ IsSome(task)
                /\ Unwrap(task).finished
                /\ ~Unwrap(task).fresh
                /\ ~IsSome(MeshTaskOf(full_tasks', low_tasks', chunks[i].pos, lod))
                /\ i <= Len(chunks')
                /\ chunks'[i].pos = chunks[i].pos )
              => ~ ( /\ lod \in DOMAIN chunks'[i].mesh_cache
                     /\ ~chunks'[i].mesh_cache[lod].fresh ) ]_vars

\* The chunks (array indices) that the mesh task of chunk position pos reads:
\* its own chunk and the chunks of the six neighbours.
ReadBy(szs, pos) ==
    { Unwrap(pos_to_idx(szs, pos)) } \cup AdjIdxSet(szs, pos)

\* C5: the driver never edits a chunk while a mesh task that reads it, as
\* its own chunk or as a neighbour, is live: no step changes the voxels of
\* a chunk under a task that is running before the step and still held
\* after it.
C5_NoEditUnderMeshTask ==
    [][ \A i \in 1 .. Len(chunks) : \A j \in 1 .. Len(chunks) : \A lod \in LODS :
          LET task  == MeshTaskOf(full_tasks, low_tasks, chunks[j].pos, lod)
              task2 == MeshTaskOf(full_tasks', low_tasks', chunks[j].pos, lod)
          IN  ( /\ IsSome(task) /\ ~Unwrap(task).finished
                /\ IsSome(task2)
                /\ sizes' = sizes
                /\ (i - 1) \in ReadBy(sizes, chunks[j].pos) )
              => /\ chunks'[i].voxel_ids = chunks[i].voxel_ids
                 /\ chunks'[i].fill_type = chunks[i].fill_type ]_vars

\* The voxel positions and ids the edits of the model use.
EDIT_POSITIONS == { POS_A, ZERO3 }

\* C7: a successful state-changing set_voxel at p leaves active_lod = None
\* and an empty mesh cache in the owning chunk and in every face-adjacent
\* chunk of the array that touches p.
C7_EditInvalidatesNeighbours ==
    \A pos \in EDIT_POSITIONS : \A new_id \in 0 .. N_VOXEL_DATA - 1 :
        LET r == set_voxel(chunks, sizes, pos, new_id)
        IN  (r.ok /\ r.old_id # new_id)
            => \A i \in idxs_to_reload(sizes, { pos }) :
                  /\ r.chunks[i + 1].active_lod = None
                  /\ r.chunks[i + 1].mesh_cache = EmptyMap

\* C8: in every reachable state a chunk with an entry in its mesh_cache is
\* generated.
C8_MeshOnlyIfGenerated ==
    \A i \in 1 .. Len(chunks) :
        chunks[i].mesh_cache # EmptyMap => is_generated(chunks[i])

\* The chunk positions that have a mesh task, full or low.
MeshTaskPositions == DOMAIN full_tasks \cup { k[1] : k \in DOMAIN low_tasks }

\* C9: a mesh task (full or low) is in the task maps for a position only
\* while the chunk at that position is generated, so a voxel-gen task and a
\* mesh task of one chunk never exist together.
C9_MeshTaskOnlyIfGenerated ==
    \A pos \in MeshTaskPositions :
        /\ IsSome(pos_to_idx(sizes, pos))
        /\ is_generated(chunks[Unwrap(pos_to_idx(sizes, pos)) + 1])
        /\ pos \notin DOMAIN voxels_gen_tasks

\* A chunk that went through its voxel-gen task has a full and a low mesh
\* task at once.
C9_Witness ==
    \E k \in DOMAIN low_tasks :
        /\ k[1] \in DOMAIN full_tasks
        /\ chunks[Unwrap(pos_to_idx(sizes, k[1])) + 1].fill_type = Default

\* C10: render never starts a duplicate of a task: the "there should be
\* only one task" assertions of start_task_gen_voxels and
\* start_task_gen_vertices never fail.
C10_OneTaskPerKey ==
    panicked \cap { "only one gen task", "only one mesh task" } = {}

\* Render has come back to chunks whose tasks were in flight: one mesh is
\* cached and shown while two mesh tasks are still held.
C10_Witness ==
    /\ panicked = {}
    /\ Cardinality(DOMAIN full_tasks) + Cardinality(DOMAIN low_tasks) >= 2
    /\ \E i \in 1 .. Len(chunks) : IsSome(chunks[i].active_lod)

AllGenerated == \A i \in 1 .. Len(chunks) : is_generated(chunks[i])

\* C2: when every spawned task eventually finishes, render is called again
\* and again, no save or load stays in flight forever and the array is not
\* reshaped, every chunk of the array eventually becomes generated, and
\* stays so.
C2_AllChunksGenerate == <>[]AllGenerated

\* Both chunks of the array have gone through their voxel-gen tasks.
C2_Witness ==
    /\ Len(chunks) = 2
    /\ voxels_gen_tasks = EmptyMap
    /\ \A i \in 1 .. Len(chunks) :
          /\ is_generated(chunks[i])
          /\ chunks[i].voxel_ids = generate_voxels(chunks[i].pos)

\* C11: in every reachable state and for every chunk, active_lod is None or
\* a key of the chunk's mesh_cache: after render adopts a LOD, after a mesh
\* upload, after an edit or DropAllMeshes and after the reload of the edited
\* chunks.
C11_ActiveLodCached ==
    \A i \in 1 .. Len(chunks) :
        \/ chunks[i].active_lod = None
        \/ Unwrap(chunks[i].active_lod) \in DOMAIN chunks[i].mesh_cache

\* One chunk shows a LOD that render adopted, another was edited and
\* reloaded: its cache holds the rebuilt LOD-0 mesh and its active_lod is None.
C11_Witness ==
    /\ \E i \in 1 .. Len(chunks) :
          /\ IsSome(chunks[i].active_lod)
          /\ Unwrap(chunks[i].active_lod) \in DOMAIN chunks[i].mesh_cache
    /\ \E j \in 1 .. Len(chunks) :
          /\ chunks[j].active_lod = None
          /\ 0 \in DOMAIN chunks[j].mesh_cache

\* C12: when the load fails while decoding the save file (a truncated blob,
\* an invalid id, a wrong voxel count), update returns UpdateError::Save and
\* leaves sizes, chunks and the three task maps as they were.
C12_DecodeErrorIsSaveError ==
    (Alive /\ pc = "idle" /\ IsSome(reading_handle)) =>
        \A file \in DAMAGED_FILES :
            LET r == update(Self, << >>, FALSE, FALSE, read_from_file(file))
            IN  /\ r.result = "Save"
                /\ r.st.sizes = sizes
                /\ r.st.chunks = chunks
                /\ r.st.full_tasks = full_tasks
                /\ r.st.low_tasks = low_tasks
                /\ r.st.voxels_gen_tasks = voxels_gen_tasks

\* C13: when a load completes successfully the driver replaces the whole
\* array and discards the tasks: sizes are the loaded sizes, every chunk is
\* generated and holds the loaded contents, and the three task maps are
\* empty, so no result of a task started before the load can be applied.
C13_LoadReplacesArray ==
    ( /\ Alive /\ pc = "idle" /\ IsSome(reading_handle)
      /\ saving_handle \notin { Some("io"), Some("join") } ) =>
        \A w \in 1 .. Len(LOAD_WORLDS) :
          \A cmds \in { << >>, << SetVoxelCmd(POS_A, AIR) >> } :
            LET world == LOAD_WORLDS[w]
                r == update(Self, cmds, FALSE, FALSE, read_from_file(FileOf(world)))
            IN  /\ r.result = "Ok"
                /\ r.st.panicked = {}
                /\ r.st.reading_handle = None
                /\ r.st.sizes = world.sizes
                /\ Len(r.st.chunks) = volume(world.sizes)
                /\ \A i \in 1 .. Len(r.st.chunks) :
                      /\ is_generated(r.st.chunks[i])
                      /\ r.st.chunks[i].pos = idx_to_pos(i - 1, world.sizes)
                      /\ r.st.chunks[i].fill_type = world.arr[i].fill_type
                      /\ r.st.chunks[i].voxel_ids = world.arr[i].voxel_ids
                      /\ r.st.chunks[i].mesh_cache = EmptyMap
                /\ r.st.full_tasks = EmptyMap
                /\ r.st.low_tasks = EmptyMap
                /\ r.st.voxels_gen_tasks = EmptyMap

\* The array after the load of the first world: one chunk, all stone, that
\* no voxel-gen task has made, and no task held.
C13_Witness ==
    /\ sizes = LOAD_WORLDS[1].sizes
    /\ Len(chunks) = 1
    /\ chunks[1] = Chunk_new_same_filled(ZERO3, STONE)
    /\ reading_handle = None
    /\ full_tasks = EmptyMap /\ low_tasks = EmptyMap /\ voxels_gen_tasks = EmptyMap

\* C14: an edit command whose edit returns an error (an invalid id, a
\* position outside the array) is skipped: the tick ends as it would without
\* the command, in the chunks' voxels and meshes, in the change tracker's
\* voxels and in the count of updated chunks, and the commands behind it are
\* still processed.
C14_FailedEditSkipped ==
    \A command \in COMMANDS :
      \A rest \in { << >>, << SetVoxelCmd(POS_A, AIR) >> } :
        LET failed ==
                \/ /\ command.type = "SetVoxel"
                   /\ ~set_voxel(chunks, sizes, command.pos, command.new_id).ok
                \/ /\ command.type = "FillVoxels"
                   /\ ~fill_voxels(chunks, sizes, command.pos, command.pos_to,
                                   command.new_id).ok
            with    == process_commands(chunks, sizes, << command >> \o rest)
            without == process_commands(chunks, sizes, rest)
        IN  failed =>
              /\ with.chunks = without.chunks
              /\ with.tracked = without.tracked
              /\ with.n_changed = without.n_changed

\* C15: within one tick process_commands drains every command that was
\* sent before it runs and applies them in the order they were sent: each
\* is run once, none is left in the channel, and the voxels are those that
\* running the commands one after the other gives.
C15_CommandsFifo ==
    (Alive /\ pc = "idle") =>
        \A batch \in BATCHES :
            LET r == process_commands(chunks, sizes, batch)
            IN  /\ r.applied = batch
                /\ r.left = << >>
                /\ Len(batch) = 2 =>
                      LET first  == process_commands(chunks, sizes, << batch[1] >>)
                          second == process_commands(first.chunks, sizes, << batch[2] >>)
                      IN  \A i \in 1 .. Len(chunks) :
                              /\ r.chunks[i].voxel_ids = second.chunks[i].voxel_ids
                              /\ r.chunks[i].fill_type = second.chunks[i].fill_type

\* A tick has run SetVoxel(air) and then SetVoxel(stone) on the voxel
\* (-1,0,0) of a loaded world: the voxel is stone, as the last command says,
\* and its chunk and the neighbour across the face hold the rebuilt mesh.
C15_Witness ==
    /\ Len(chunks) = 2
    /\ get_voxel(chunks, sizes, POS_A) = Some(STONE)
    /\ chunks[2].fill_type = AllSame(AIR)
    /\ \A i \in 1 .. 2 :
          /\ is_generated(chunks[i])
          /\ chunks[i].active_lod = None
          /\ 0 \in DOMAIN chunks[i].mesh_cache
          /\ chunks[i].mesh_cache[0].fresh

\* C16: after a tick in which a state-changing SetVoxel or FillVoxels was
\* processed, every chunk whose voxels changed and every neighbour across a
\* face that a changed voxel touches holds, at the end of process_commands,
\* a LOD-0 mesh rebuilt from the voxels after the edit.
C16_EditedChunksReloaded ==
    (Alive /\ pc = "idle") =>
        \A batch \in BATCHES :
            LET r == process_commands(chunks, sizes, batch)
            IN  \A i \in r.dirty :
                    /\ 0 \in DOMAIN r.chunks[i + 1].mesh_cache
                    /\ r.chunks[i + 1].mesh_cache[0].fresh

\* C17: idxs_to_reload returns exactly the indices of the chunks that own a
\* tracked voxel and of the chunks of the array next to such a chunk across
\* a face the voxel touches (local coordinate 0 or SIZE - 1 on that axis);
\* voxels and neighbours outside the array contribute nothing.
C17_ReloadSetExact ==
    \A voxel_poses \in SUBSET (EDIT_POSITIONS \cup { POS_OUT, << 1, 1, 1 >> }) :
        idxs_to_reload(sizes, voxel_poses) =
            { idx \in 0 .. volume(sizes) - 1 :
                \E p \in voxel_poses :
                    LET owner == VFloorDiv(p, SIZE)
                        local == VSub(p, VScale(owner, SIZE))
                        d     == VSub(idx_to_pos(idx, sizes), owner)
                    IN  /\ IsSome(pos_to_coord_idx(sizes, owner))
                        /\ \/ d = ZERO3
                           \/ \E a \in 1 .. 3 :
                                /\ \A b \in (1 .. 3) \ { a } : d[b] = 0
                                /\ \/ d[a] = -1 /\ local[a] = 0
                                   \/ d[a] = 1 /\ local[a] = SIZE - 1 }

\* A tick has tracked the voxel (-1,0,0) of a loaded world: its chunk has the
\* voxel changed, the neighbour across the +X face is the all-air chunk of
\* the file, and both hold a rebuilt LOD-0 mesh and no active LOD.
C17_Witness ==
    /\ pc = "idle" /\ Len(chunks) = 2
    /\ get_voxel(chunks, sizes, POS_A) = Some(AIR)
    /\ chunks[1].fill_type = Default
    /\ is_generated(chunks[2])
    /\ chunks[2].fill_type = AllSame(AIR)
    /\ \A i \in 1 .. 2 :
          /\ chunks[i].active_lod = None
          /\ DOMAIN chunks[i].mesh_cache = { 0 }

\* C18: the events of the mesh pipeline of a chunk come in this order: the
\* chunk is generated before a mesh task of it starts; in render a mesh
\* appears in the cache at LOD L only out of a task for L that was started
\* before and has finished; and render sets active_lod to L only when the
\* mesh for L is in the cache.
C18_PipelineOrder ==
    [][ \A i \in 1 .. Len(chunks') : \A lod \in LODS :
          LET pos  == chunks'[i].pos
              same == /\ sizes' = sizes
                      /\ i <= Len(chunks)
                      /\ chunks[i].pos = pos
          IN  /\ ( /\ ~IsSome(MeshTaskOf(full_tasks, low_tasks, pos, lod))
                   /\ IsSome(MeshTaskOf(full_tasks', low_tasks', pos, lod)) )
                 => /\ is_generated(chunks'[i])
                    /\ pos \notin DOMAIN voxels_gen_tasks'
              /\ ( /\ same /\ pc' # pc
                   /\ lod \in DOMAIN chunks'[i].mesh_cache
                   /\ lod \notin DOMAIN chunks[i].mesh_cache )
                 => /\ IsSome(MeshTaskOf(full_tasks, low_tasks, pos, lod))
                    /\ Unwrap(MeshTaskOf(full_tasks, low_tasks, pos, lod)).finished
                    /\ ~IsSome(MeshTaskOf(full_tasks', low_tasks', pos, lod))
              /\ ( /\ same
                   /\ chunks'[i].active_lod = Some(lod)
                   /\ chunks[i].active_lod # Some(lod) )
                 => lod \in DOMAIN chunks'[i].mesh_cache ]_vars

\* A chunk has gone the whole way at LOD 1: made by its voxel-gen task, meshed
\* by a low task that is gone from the map, and shown at LOD 1.
C18_Witness ==
    \E i \in 1 .. Len(chunks) :
        /\ is_generated(chunks[i])
        /\ chunks[i].voxel_ids = generate_voxels(chunks[i].pos)
        /\ chunks[i].active_lod = Some(1)
        /\ 1 \in DOMAIN chunks[i].mesh_cache
        /\ << chunks[i].pos, 1 >> \notin DOMAIN low_tasks

\* C19: the driver never blocks on an unfinished task: in render and in
\* update every await on a task handle, on the save handle and on the load
\* handle comes after that handle reported is_finished().
C19_NeverBlocks == ~blocked

\* Render and update have returned while workers were running: one chunk is
\* in place out of its finished voxel-gen task, another voxel-gen task has
\* not finished, and the save task spawned by Ctrl+S is still writing.
C19_Witness ==
    /\ pc = "idle" /\ ~blocked
    /\ saving_handle = Some("running")
    /\ \E pos \in DOMAIN voxels_gen_tasks : ~voxels_gen_tasks[pos].finished
    /\ \E i \in 1 .. Len(chunks) :
          /\ is_generated(chunks[i])
          /\ chunks[i].voxel_ids = generate_voxels(chunks[i].pos)

\* C20: the result of a completed task is consumed once: the entry leaves
\* its map in the step that applies the result, so no entry whose result was
\* taken stays in a map, and a finished entry that render leaves in its map
\* has not been applied to its chunk by that render.
C20_ResultConsumedOnce ==
    [][ /\ \A p \in DOMAIN voxels_gen_tasks' : ~voxels_gen_tasks'[p].taken
        /\ \A p \in DOMAIN full_tasks' : ~full_tasks'[p].taken
        /\ \A k \in DOMAIN low_tasks' : ~low_tasks'[k].taken
        /\ pc' # pc =>
             \A i \in 1 .. Len(chunks) : \A lod \in LODS :
               LET pos  == chunks[i].pos
                   task == MeshTaskOf(full_tasks, low_tasks, pos, lod)
               IN  /\ ( /\ IsSome(task) /\ is_ready(Unwrap(task))
                        /\ IsSome(MeshTaskOf(full_tasks', low_tasks', pos, lod)) )
                      => /\ (lod \in DOMAIN chunks'[i].mesh_cache)
                               = (lod \in DOMAIN chunks[i].mesh_cache)
                         /\ lod \in DOMAIN chunks[i].mesh_cache
                               => chunks'[i].mesh_cache[lod] = chunks[i].mesh_cache[lod]
                   /\ ( /\ pos \in DOMAIN voxels_gen_tasks
                        /\ is_ready(voxels_gen_tasks[pos])
                        /\ pos \in DOMAIN voxels_gen_tasks' )
                      => chunks'[i] = chunks[i] ]_vars

\* A full mesh task has finished and waits in its map for the next render,
\* while the low mesh of a chunk is in its cache and the low task that made
\* it is gone from the map.
C20_Witness ==
    /\ \E p \in DOMAIN full_tasks : is_ready(full_tasks[p])
    /\ \E i \in 1 .. Len(chunks) :
          /\ 1 \in DOMAIN chunks[i].mesh_cache
          /\ << chunks[i].pos, 1 >> \notin DOMAIN low_tasks

\* C21: in every reachable state the grid is dense and centred on the
\* origin: there are W*H*D chunks, the chunk at linear index i has the chunk
\* position coord_idx_to_pos(sizes, idx_to_coord_idx(i, sizes)), that is
\* grid index (i,j,k) holds position (i - W/2, j - H/2, k - D/2), and
\* pos_to_idx(sizes, chunks[i].pos) = Some(i).
C21_GridCentred ==
    /\ Len(chunks) = volume(sizes)
    /\ \A i \in 0 .. Len(chunks) - 1 :
          /\ chunks[i + 1].pos = coord_idx_to_pos(sizes, idx_to_coord_idx(i, sizes))
          /\ chunks[i + 1].pos = VSub(idx_to_coord_idx(i, sizes), VDiv(sizes, 2))
          /\ pos_to_idx(sizes, chunks[i + 1].pos) = Some(i)

\* A grid of two chunks where the second chunk has been put in place by its
\* finished voxel-gen task: it holds the generator's voxels at (0,0,0).
C21_Witness ==
    /\ sizes = << 2, 1, 1 >>
    /\ chunks[1].pos = << -1, 0, 0 >>
    /\ chunks[2].pos = ZERO3
    /\ is_generated(chunks[2])
    /\ chunks[2].voxel_ids = generate_voxels(ZERO3)

\* C22: for all sizes and all coordinate indices c with 0 <= c_i < sizes_i,
\* pos_to_coord_idx(sizes, coord_idx_to_pos(sizes, c)) = Some(c); and for
\* every chunk position p, pos_to_coord_idx(sizes, p) is Some(p + sizes/2)
\* exactly when every component of p + sizes/2 lies in [0, sizes_i), and None
\* otherwise (odd sizes and sizes with a zero component included).
C22_CoordIdxRoundTrip ==
    /\ call[1] = "coord_idx_to_pos" =>
          LET szs == call[2][1]  coord_idx == call[2][2]  back == call[3][2]
          IN  coord_idx \in (0 .. szs[1] - 1) \X (0 .. szs[2] - 1) \X (0 .. szs[3] - 1)
                  => back = Some(coord_idx)
    /\ call[1] = "pos_to_coord_idx" =>
          LET szs  == call[2][1]  pos == call[2][2]  ret == call[3][1]
              half == [ a \in 1 .. 3 |-> (szs[a] - (szs[a] % 2)) \div 2 ]
              q    == [ a \in 1 .. 3 |-> pos[a] + half[a] ]
          IN  IF q \in (0 .. szs[1] - 1) \X (0 .. szs[2] - 1) \X (0 .. szs[3] - 1)
              THEN ret = Some(q)
              ELSE ret = None

\* The last coordinate index of an array with odd sides, (3,1,3), has gone
\* to its chunk position (1,0,1) and come back.
C22_Witness ==
    call = << "coord_idx_to_pos", << << 3, 1, 3 >>, << 2, 0, 2 >> >>,
              << << 1, 0, 1 >>, Some(<< 2, 0, 2 >>) >> >>

\* C23: for all sizes (W,H,D) and all i in [0, W*H*D),
\* coord_idx_to_idx(sizes, idx_to_coord_idx(i, sizes)) = i, and the
\* linearization is the row-major order in which SpaceIter enumerates the
\* positions, z fastest: index 0 is (0,0,0), index i is the i-th item of
\* SpaceIter, and the next index is the next position in lexicographic order.
C23_IdxRoundTrip ==
    call[1] = "idx_to_coord_idx" =>
        LET idx == call[2][1]  szs == call[2][2]
            c == call[3][1]  back == call[3][2]  item == call[3][3]  next == call[3][4]
        IN  /\ back = idx
            /\ c \in (0 .. szs[1] - 1) \X (0 .. szs[2] - 1) \X (0 .. szs[3] - 1)
            /\ item = c
            /\ idx = 0 => c = ZERO3
            /\ IsSome(next) =>
                  Unwrap(next) =
                      IF c[3] + 1 < szs[3] THEN << c[1], c[2], c[3] + 1 >>
                      ELSE IF c[2] + 1 < szs[2] THEN << c[1], c[2] + 1, 0 >>
                      ELSE << c[1] + 1, 0, 0 >>

\* Index 5 of a (2,3,2) array: coordinate index (0,2,1), the last of its
\* row and of its plane, followed by (1,0,0).
C23_Witness ==
    call = << "idx_to_coord_idx", << 5, << 2, 3, 2 >> >>,
              << << 0, 2, 1 >>, 5, << 0, 2, 1 >>, Some(<< 1, 0, 0 >>) >> >>

\* C24 as claimed: calling the array's set_voxel(p, v) twice in a row with
\* the same v returns the same old_id both times and leaves the chunks after
\* the second call as they were after the first.
C24_SetVoxelTwiceSameOldId ==
    \A pos \in EDIT_POSITIONS \cup { POS_OUT } : \A new_id \in { AIR, STONE, BAD_ID } :
        \E first \in { set_voxel(chunks, sizes, pos, new_id) } :
          \E second \in { set_voxel(first.chunks, sizes, pos, new_id) } :
            /\ second.ok = first.ok
            /\ second.old_id = first.old_id
            /\ second.chunks = first.chunks

\* C24 as amended: calling the array's set_voxel(p, v) twice in a row with
\* the same v gives Ok both times or the same error both times and leaves the
\* chunks after the second call as they were after the first; when the calls
\* succeed the first returns the id the voxel held before it and the second
\* returns v, so the two old_ids are equal exactly when the voxel held v.
C24_SetVoxelTwice ==
    \A pos \in EDIT_POSITIONS \cup { POS_OUT } : \A new_id \in { AIR, STONE, BAD_ID } :
        \E first \in { set_voxel(chunks, sizes, pos, new_id) } :
          \E second \in { set_voxel(first.chunks, sizes, pos, new_id) } :
            /\ second.ok = first.ok
            /\ second.err = first.err
            /\ second.chunks = first.chunks
            /\ first.ok =>
                  /\ first.old_id = Unwrap(get_voxel(chunks, sizes, pos))
                  /\ second.old_id = new_id
                  /\ get_voxel(second.chunks, sizes, pos) = Some(new_id)
                  /\ (second.old_id = first.old_id)
                        = (get_voxel(chunks, sizes, pos) = Some(new_id))
            /\ ~first.ok => first.chunks = chunks

\* The voxel on the shared face is stone in a loaded chunk that has a mesh:
\* the first set_voxel to air returns stone and drops the mesh, the second
\* returns air.
C24_Witness ==
    /\ sizes = << 2, 1, 1 >>
    /\ is_generated(chunks[1])
    /\ 0 \in DOMAIN chunks[1].mesh_cache
    /\ \E first \in { set_voxel(chunks, sizes, POS_A, AIR) } :
          /\ first.ok /\ first.old_id = STONE
          /\ first.chunks[1].mesh_cache = EmptyMap
          /\ set_voxel(first.chunks, sizes, POS_A, AIR).old_id = AIR

\* C25: for every well-formed generated chunk c,
\* array_filltype_from_bytes(chunk_as_bytes(c)) returns c's voxel ids and
\* fill type unchanged: for AllSame chunks, whose blob holds the fill type
\* alone whatever VOLUME is, and for Default chunks, those whose VOLUME
\* voxels all carry one id (a frequency table of one symbol) included.
C25_CodecRoundTrip ==
    call[1] = "chunk_as_bytes" =>
        LET chunk == call[2][1]  bytes == call[3][1]  decoded == call[3][2]
        IN  /\ ~bytes.panic
            /\ ~decoded.panic
            /\ ~decoded.diverges
            /\ decoded.voxel_ids = chunk.voxel_ids
            /\ decoded.fill_type = chunk.fill_type
            /\ chunk.fill_type.kind = "AllSame" =>
                  bytes.freqs = << >> /\ bytes.bits = << >>

\* C26: the desired LOD of a chunk is min(floor(dist / threshold), log2(S)),
\* dist the distance from the camera to the chunk's centre in chunk sizes:
\* for every camera position and every threshold of the slider's range it
\* lies in 0 .. log2(S), it is k < log2(S) exactly when
\* k * threshold <= dist < (k + 1) * threshold and log2(S) exactly when
\* dist >= log2(S) * threshold, and it does not decrease when dist grows.
\* Distances are compared by their squares, (2 S dist)^2 * den^2 against
\* (2 S k num)^2 for the threshold num / den.
C26_DesiredLod ==
    call[1] = "desired_lod" =>
        LET t   == call[2][3]
            pos == call[2][4]
            d2(cam_pos) ==
                SqrLen(<< 2 * SIZE * pos[1] + SIZE - 2 * cam_pos[1],
                          2 * SIZE * pos[2] + SIZE - 2 * cam_pos[2],
                          2 * SIZE * pos[3] + SIZE - 2 * cam_pos[3] >>) * t[2] * t[2]
            at(k) == (2 * SIZE * k * t[1]) * (2 * SIZE * k * t[1])
            Is(cam_pos, lod) ==
                /\ lod \in 0 .. ilog2(SIZE)
                /\ at(lod) <= d2(cam_pos)
                /\ lod < ilog2(SIZE) => d2(cam_pos) < at(lod + 1)
        IN  /\ Is(call[2][1], call[3][1])
            /\ Is(call[2][2], call[3][2])
            /\ d2(call[2][1]) <= d2(call[2][2]) => call[3][1] <= call[3][2]

\* With the threshold 5.8 a camera inside the chunk (0,0,0) selects LOD 0,
\* and a camera whose distance to the chunk's centre is 12 chunk sizes, where
\* floor(12 / 5.8) = 2, selects min(2, log2(S)) = log2(S).
C26_Witness ==
    /\ call[1] = "desired_lod"
    /\ call[2] = << << 0, 0, 0 >>, << -23, 1, 1 >>, THRESHOLD, ZERO3 >>
    /\ call[3] = << 0, ilog2(SIZE) >>

\* C27: in every reachable state the grid respects the configured limit,
\* W*H*D <= MAX_CHUNKS, and every operation that installs new sizes rejects
\* sizes whose volume exceeds MAX_CHUNKS: the array that update leaves when
\* the load task has read a save file of MAX_CHUNKS + 1 chunks is within the
\* limit too.
C27_WithinMaxChunks ==
    /\ volume(sizes) <= MAX_CHUNKS
    /\ ( Alive /\ pc = "idle" ) =>
          LET world == [ sizes |-> << MAX_CHUNKS + 1, 1, 1 >>,
                         arr |-> [ i \in 1 .. MAX_CHUNKS + 1 |->
                                     [ voxel_ids |-> << >>, fill_type |-> AllSame(STONE) ] ] ]
              r == update(Self, << >>, FALSE, FALSE, read_from_file(FileOf(world)))
          IN  volume(r.st.sizes) <= MAX_CHUNKS

\* C28: every progress fraction passed to Loading.refresh during
\* save_to_file and read_from_file is a defined number in [0,1], for every
\* chunk index i in [0, volume) and every array volume >= 1, volume = 1
\* (where the fraction is i / (volume - 1) = 0 / 0) included.
C28_ProgressInUnitRange ==
    call[1] = "refresh" =>
        LET fraction == call[3][1]
        IN  /\ fraction[1] = "number"
            /\ 0 <= fraction[2]
            /\ fraction[2] <= fraction[3]

\* C29: while a save or a load is in flight (saving_handle or reading_handle
\* is Some) render starts no new voxel-gen task and no new mesh task: no step
\* taken with a handle held adds a key to a task map.  Tasks already in the
\* maps may still complete and be drained.
C29_NoTaskStartDuringIo ==
    [][ ( IsSome(saving_handle) \/ IsSome(reading_handle) ) =>
            /\ DOMAIN voxels_gen_tasks' \subseteq DOMAIN voxels_gen_tasks
            /\ DOMAIN full_tasks' \subseteq DOMAIN full_tasks
            /\ DOMAIN low_tasks' \subseteq DOMAIN low_tasks ]_vars

\* Render has drained the tasks and comes to its loop while the save task is
\* still writing: every chunk is generated, a chunk has no mesh, no task is
\* held, so the loop would start a mesh task but for the save.
C29_Witness ==
    /\ pc = "render" /\ Alive
    /\ saving_handle = Some("running")
    /\ voxels_gen_tasks = EmptyMap /\ full_tasks = EmptyMap /\ low_tasks = EmptyMap
    /\ \A i \in 1 .. Len(chunks) : is_generated(chunks[i])
    /\ \E i \in 1 .. Len(chunks) : chunks[i].mesh_cache = EmptyMap

\* C30: render starts a mesh task for a chunk only when the chunk itself is
\* generated and every one of its face neighbours that lies inside the array
\* is generated: a step that adds a key to full_tasks or low_tasks leaves
\* that chunk and its neighbours in the array generated.  Neighbours outside
\* the array do not block the task.
C30_MeshTaskNeedsNeighbours ==
    [][ \A pos \in ( DOMAIN full_tasks' \ DOMAIN full_tasks )
                    \cup { key[1] : key \in DOMAIN low_tasks' \ DOMAIN low_tasks } :
            /\ IsSome(pos_to_idx(sizes', pos))
            /\ is_generated(chunks'[Unwrap(pos_to_idx(sizes', pos)) + 1])
            /\ \A side \in 1 .. 6 :
                  LET adj == pos_to_idx(sizes', VAdd(pos, ADJ_OFFSETS[side]))
                  IN  IsSome(adj) => is_generated(chunks'[Unwrap(adj) + 1]) ]_vars

\* Mesh tasks run in an array of two chunks, both generated, each with five
\* of its six neighbours outside the array.
C30_Witness ==
    /\ sizes = << 2, 1, 1 >>
    /\ DOMAIN full_tasks \cup { key[1] : key \in DOMAIN low_tasks } # {}
    /\ \A i \in 1 .. Len(chunks) : is_generated(chunks[i])
    /\ \E pos \in DOMAIN full_tasks \cup { key[1] : key \in DOMAIN low_tasks } :
          Cardinality({ side \in 1 .. 6 :
              ~IsSome(pos_to_idx(sizes, VAdd(pos, ADJ_OFFSETS[side]))) }) = 5

\* C31: after the drop that render makes for a chunk at pos with desired LOD
\* d, no mesh task of (pos, l) with |l - d| > 2 is left, and the tasks of pos
\* with |l - d| <= 2 and every task of another position are in place, as they
\* were; nothing else of the array is touched.
C31_UselessTasksDropped ==
    call[1] = "drop_all_useless_tasks" =>
        LET running == call[2][1]
            d       == call[2][2]
            pos     == call[2][3]
        IN  /\ call[3][1] = { k \in running : k[1] # pos \/ Abs(k[2] - d) <= 2 }
            /\ call[3][2]

C31_Witness ==
    /\ call[1] = "drop_all_useless_tasks"
    /\ \E k \in call[2][1] : k[1] = call[2][3] /\ Abs(k[2] - call[2][2]) > 2
    /\ \E k \in call[2][1] : k[1] = call[2][3] /\ Abs(k[2] - call[2][2]) = 2
    /\ \E k \in call[2][1] : k[1] # call[2][3] /\ Abs(k[2] - call[2][2]) > 2
    /\ call[3][1] # call[2][1]

\* C32: within one render call the chunks are processed in non-decreasing
\* order of their squared distance to the camera, so in a frame that starts
\* with room for a task and runs out of it, every chunk that was given a new
\* task is at least as near to the camera as every eligible chunk (generated,
\* its neighbours generated, its desired LOD neither cached nor under way)
\* that was declined one.
C32_NearerChunksFirst ==
    [][ \A cam_pos \in FRAME_CAMS :
          ( /\ pc = "render" /\ pc' = "idle" /\ Alive
            /\ can_start_tasks(Self)
            /\ chunks' = render_loop(Self, get_targets_sorted(chunks, cam_pos),
                                     1, cam_pos).chunks
            /\ full_tasks' = render_loop(Self, get_targets_sorted(chunks, cam_pos),
                                         1, cam_pos).full_tasks
            /\ low_tasks' = render_loop(Self, get_targets_sorted(chunks, cam_pos),
                                        1, cam_pos).low_tasks )
          => LET order == get_targets_sorted(chunks, cam_pos)
                 lod(i) == desired_lod(cam_pos, THRESHOLD, chunks[i].pos)
                 given(i) ==
                     \/ chunks[i].pos \in DOMAIN voxels_gen_tasks' \ DOMAIN voxels_gen_tasks
                     \/ chunks[i].pos \in DOMAIN full_tasks' \ DOMAIN full_tasks
                     \/ \E l \in LODS :
                           << chunks[i].pos, l >> \in DOMAIN low_tasks' \ DOMAIN low_tasks
                 declined(i) ==
                     /\ is_generated(chunks'[i])
                     /\ \A a \in AdjIdxSet(sizes, chunks[i].pos) : is_generated(chunks'[a + 1])
                     /\ lod(i) \notin get_available_lods(chunks'[i])
                     /\ ~is_mesh_task_running(full_tasks', low_tasks', chunks[i].pos, lod(i))
             IN  /\ \A k \in 1 .. Len(order) - 1 :
                       sort_dist(cam_pos, chunks[order[k] + 1])
                           <= sort_dist(cam_pos, chunks[order[k + 1] + 1])
                 /\ \A i, j \in 1 .. Len(chunks) :
                       given(i) /\ declined(j)
                           => sort_dist(cam_pos, chunks[i]) <= sort_dist(cam_pos, chunks[j])
      ]_vars

\* C33: after render has processed a generated chunk whose desired LOD d is
\* neither cached nor delivered by its task in this frame, the chunk's
\* active_lod is the best fit of its cache keys K for d, the k of K with the
\* least (|k - d|, k), also when active_lod held another cached LOD before;
\* with K empty active_lod stays None.
C33_BestFitAdopted ==
    call[1] = "render_chunk" =>
        LET K == call[2][1]
            d == call[2][3]
        IN  /\ call[3][2] = K
            /\ call[3][1] =
                 IF K = {}
                 THEN None
                 ELSE Some(CHOOSE k \in K : \A j \in K :
                             \/ Abs(k - d) < Abs(j - d)
                             \/ Abs(k - d) = Abs(j - d) /\ k <= j)

\* C34: the array's fill_voxels(pos_from, pos_to, new_id) with
\* pos_from <= pos_to componentwise and the box inside the array succeeds,
\* sets exactly the voxels of [pos_from, pos_to) to new_id, over every chunk
\* the box meets, and no other voxel, and returns true exactly when a voxel
\* changed; an empty box inside the array succeeds with false.
C34_FillExactBox ==
    call[1] = "fill_voxels" =>
        LET chs      == call[2][1]
            szs      == call[2][2]
            pos_from == call[2][3]
            pos_to   == call[2][4]
            new_id   == call[2][5]
            after    == call[3][4]
            lo       == chunk_global_pos(pos_bounds(szs)[1])
            hi       == chunk_global_pos(pos_bounds(szs)[2])
            voxels   == (lo[1] .. hi[1] - 1) \X (lo[2] .. hi[2] - 1) \X (lo[3] .. hi[3] - 1)
            in_box(p) == \A a \in 1 .. 3 : pos_from[a] <= p[a] /\ p[a] < pos_to[a]
        IN  /\ call[3][1]
            /\ \A p \in voxels :
                  get_voxel(after, szs, p) =
                      IF in_box(p) THEN Some(new_id) ELSE get_voxel(chs, szs, p)
            /\ call[3][3] =
                  ( \E p \in voxels : in_box(p) /\ get_voxel(chs, szs, p) # Some(new_id) )

\* C35: the array's set_voxel returns EditError::PosIdConversion for a
\* position outside the array, and fill_voxels for a box of which a voxel
\* lies outside the array; no chunk (voxels, meshes, active_lod) is modified
\* then: fill_voxels fills no part of the box before it fails.
C35_OutsideEditRejected ==
    LET lo == chunk_global_pos(pos_bounds(sizes)[1])
        hi == chunk_global_pos(pos_bounds(sizes)[2])
        inside(p) == \A a \in 1 .. 3 : lo[a] <= p[a] /\ p[a] < hi[a]
        poses == (-2 * SIZE .. 2 * SIZE) \X (-1 .. SIZE) \X (0 .. SIZE - 1)
        exts  == (1 .. SIZE + 1) \X (1 .. SIZE) \X (1 .. SIZE)
    IN  \A new_id \in { AIR, STONE, BAD_ID } :
          /\ \A pos \in poses :
                ~inside(pos) =>
                    \E r \in { set_voxel(chunks, sizes, pos, new_id) } :
                        ~r.ok /\ r.err = "PosIdConversion" /\ r.chunks = chunks
          /\ \A pos_from \in poses : \A ext \in exts :
                ( ~inside(pos_from) \/ ~inside(VSub(VAdd(pos_from, ext), << 1, 1, 1 >>)) ) =>
                    \E r \in { fill_voxels(chunks, sizes, pos_from,
                                           VAdd(pos_from, ext), new_id) } :
                        ~r.ok /\ r.err = "PosIdConversion" /\ r.chunks = chunks

\* Both chunks hold a mesh and stone on the shared face: a fill with air
\* from that face to beyond the array's end and a set_voxel beyond the end
\* fail, the voxels and the meshes as they were.
C35_Witness ==
    /\ sizes = << 2, 1, 1 >>
    /\ \A i \in 1 .. 2 : chunks[i].mesh_cache # EmptyMap
    /\ get_voxel(chunks, sizes, POS_A) = Some(STONE)
    /\ \E r \in { fill_voxels(chunks, sizes, POS_A, << 2 * SIZE, 1, 1 >>, AIR) } :
          ~r.ok /\ r.chunks = chunks
    /\ ~set_voxel(chunks, sizes, POS_OUT, AIR).ok

\* C36: in every reachable state every key of voxels_gen_tasks, full_tasks
\* and low_tasks is the position of a chunk of the current array, and that
\* chunk lies at the index the position maps to, so the result of a finished
\* task always finds its chunk, also after the Generate button or a load has
\* changed the sizes.
C36_TaskKeysInArray ==
    \A pos \in DOMAIN voxels_gen_tasks \cup DOMAIN full_tasks
                \cup { k[1] : k \in DOMAIN low_tasks } :
        /\ IsSome(pos_to_idx(sizes, pos))
        /\ Unwrap(pos_to_idx(sizes, pos)) + 1 \in DOMAIN chunks
        /\ chunks[Unwrap(pos_to_idx(sizes, pos)) + 1].pos = pos

\* A task of chunk (-1,0,0) is in flight while the load of the one-chunk
\* world is awaited: the update that finds the load finished installs the
\* array of sizes (1,1,1), where (-1,0,0) is no chunk, with no task left.
C36_Witness ==
    /\ pc = "idle" /\ Alive
    /\ sizes = << 2, 1, 1 >>
    /\ reading_handle = Some("running")
    /\ << -1, 0, 0 >> \in DOMAIN voxels_gen_tasks \cup DOMAIN full_tasks
    /\ \E r \in { update(Self, << >>, FALSE, FALSE, LoadTask("ok", LOAD_WORLDS[1])) } :
          /\ r.st.sizes = << 1, 1, 1 >>
          /\ ~IsSome(pos_to_idx(r.st.sizes, << -1, 0, 0 >>))
          /\ r.st.voxels_gen_tasks = EmptyMap
          /\ r.st.full_tasks = EmptyMap
          /\ r.st.low_tasks = EmptyMap

\* C37: in every reachable state a voxel-gen task is in its map for a
\* position only while the chunk at that position is not generated, so the
\* voxels of a finished voxel-gen task never replace a chunk that is
\* generated already, by a load, by an earlier completion or otherwise.
C37_GenTaskOnlyIfUngenerated ==
    \A pos \in DOMAIN voxels_gen_tasks :
        \A i \in 1 .. Len(chunks) :
            chunks[i].pos = pos => ~is_generated(chunks[i])

\* One chunk went through its voxel-gen task and is generated, its task gone;
\* the finished task of the other waits for the drain, its chunk not generated.
C37_Witness ==
    /\ Alive /\ sizes = << 2, 1, 1 >>
    /\ \E i, j \in 1 .. 2 :
          /\ is_generated(chunks[i])
          /\ chunks[i].pos \notin DOMAIN voxels_gen_tasks
          /\ ~is_generated(chunks[j])
          /\ chunks[j].pos \in DOMAIN voxels_gen_tasks
          /\ voxels_gen_tasks[chunks[j].pos].finished

\* C38: a successful edit is durable: after set_voxel(p, v) has returned Ok
\* on the array, get_voxel(p) gives v in every later state until another edit
\* covers p or the array is replaced; the completion of a voxel-gen or mesh
\* task does not revert the voxel.
C38_EditDurable ==
    ( call[1] = "set_voxel" /\ call[3][1] ) =>
        get_voxel(chunks, sizes, call[2][1]) = Some(call[2][2])

\* C39: while a save task is in flight (it reads the chunks through the
\* 'static references of make_static_refs) no step of the driver modifies
\* the voxel ids or the fill type of a chunk: no edit of process_commands, no
\* task result, no load.
C39_NoWriteUnderSave ==
    [][ RunningSaves > 0 =>
          /\ Len(chunks') = Len(chunks)
          /\ \A i \in 1 .. Len(chunks) :
                /\ chunks'[i].voxel_ids = chunks[i].voxel_ids
                /\ chunks'[i].fill_type = chunks[i].fill_type ]_vars

\* C40: the number of mesh tasks in flight, |full_tasks| + |low_tasks|, is
\* at most MAX_TASKS + 1 in every reachable state: a mesh task is admitted
\* only while that number is at most MAX_TASKS, and an admission adds one.
C40_MeshTasksWithinCap ==
    Cardinality(DOMAIN full_tasks) + Cardinality(DOMAIN low_tasks) <= MAX_TASKS + 1

\* MAX_TASKS + 1 mesh tasks are in flight and a generated chunk, its
\* neighbours generated, has neither a mesh nor a task: it was declined one.
C40_Witness ==
    /\ Alive /\ pc = "idle"
    /\ Cardinality(DOMAIN full_tasks) + Cardinality(DOMAIN low_tasks) = MAX_TASKS + 1
    /\ \E i \in 1 .. Len(chunks) :
          /\ is_generated(chunks[i])
          /\ \A a \in AdjIdxSet(sizes, chunks[i].pos) : is_generated(chunks[a + 1])
          /\ chunks[i].mesh_cache = EmptyMap
          /\ chunks[i].pos \notin DOMAIN full_tasks
          /\ \A l \in LODS : << chunks[i].pos, l >> \notin DOMAIN low_tasks

====
